------------------------ MODULE RuleSemanticsProofs ------------------------
(***************************************************************************)
(* MatchesDocumentation for every packet, every argument and any number of *)
(* calls: the machine's state behind the expressions of the first i calls  *)
(* is the documented one, by induction on i, with one lemma for each       *)
(* method from RuleMethodsProofs.                                          *)
(***************************************************************************)
EXTENDS RuleSemantics, RuleMethodsProofs

-----------------------------------------------------------------------------
(* The documented decision, call after call.                               *)

(* f[i] is the documented state behind the first i calls, for i up to n.   *)
IsDocumented(f, n, cs, p) ==
  f = [i \in 0..n |-> IF i = 0 THEN Start(p) ELSE DocumentedStep(f[i - 1], cs[i], p)]

LEMMA DocumentedExists ==
  ASSUME NEW cs, NEW p
  PROVE  \A n \in Nat : \E f : IsDocumented(f, n, cs, p)
<1> DEFINE S == {n \in Nat : \E f : IsDocumented(f, n, cs, p)}
<1>1. 0 \in S
  <2> DEFINE f == [i \in 0..0 |-> Start(p)]
  <2>1. IsDocumented(f, 0, cs, p)
    BY DEF IsDocumented
  <2> QED
    BY <2>1
<1>2. ASSUME NEW n \in Nat, n \in S PROVE n + 1 \in S
  <2>1. PICK f : IsDocumented(f, n, cs, p)
    BY <1>2
  <2> DEFINE g == [i \in 0..(n + 1) |-> IF i = n + 1 THEN DocumentedStep(f[n], cs[n + 1], p) ELSE f[i]]
  <2>2. ASSUME NEW i \in 0..(n + 1)
        PROVE  g[i] = IF i = 0 THEN Start(p) ELSE DocumentedStep(g[i - 1], cs[i], p)
    <3>1. CASE i = n + 1
      <4>1. g[i] = DocumentedStep(f[n], cs[n + 1], p) /\ g[n] = f[n]
        BY <3>1
      <4> QED
        BY <4>1, <3>1
    <3>2. CASE i # n + 1
      <4>1. i \in 0..n /\ g[i] = f[i]
        BY <3>2
      <4>2. f[i] = IF i = 0 THEN Start(p) ELSE DocumentedStep(f[i - 1], cs[i], p)
        BY <4>1, <2>1 DEF IsDocumented
      <4>3. i # 0 => g[i - 1] = f[i - 1]
        BY <4>1
      <4> QED
        BY <4>1, <4>2, <4>3
    <3> QED
      BY <3>1, <3>2
  <2>3. IsDocumented(g, n + 1, cs, p)
    BY <2>2 DEF IsDocumented
  <2> HIDE DEF g
  <2> QED
    BY <2>3
<1> HIDE DEF S
<1>3. Nat \subseteq S
  BY <1>1, <1>2, NaturalInduction
<1> QED
  BY <1>3 DEF S

LEMMA DocumentedUnique ==
  ASSUME NEW p, NEW s, NEW t, NEW f, NEW g, NEW k \in Nat, NEW n \in Nat, NEW l \in Nat,
         IsDocumented(f, k, s, p), IsDocumented(g, n, t, p), l <= k, l <= n, SameUpTo(l, s, t)
  PROVE  f[l] = g[l]
<1> DEFINE S == {i \in Nat : i <= l => f[i] = g[i]}
<1>1. 0 \in S
  BY DEF IsDocumented
<1>2. ASSUME NEW i \in Nat, i \in S PROVE i + 1 \in S
  <2> SUFFICES ASSUME i + 1 <= l PROVE f[i + 1] = g[i + 1]
    OBVIOUS
  <2>1. f[i] = g[i] /\ i + 1 \in 0..k /\ i + 1 \in 0..n /\ i + 1 # 0 /\ (i + 1) - 1 = i
    BY <1>2
  <2>2. f[i + 1] = DocumentedStep(f[i], s[i + 1], p)
    BY <2>1 DEF IsDocumented
  <2>3. g[i + 1] = DocumentedStep(g[i], t[i + 1], p)
    BY <2>1 DEF IsDocumented
  <2>4. s[i + 1] = t[i + 1]
    BY DEF SameUpTo
  <2> QED
    BY <2>1, <2>2, <2>3, <2>4
<1> HIDE DEF S
<1>3. Nat \subseteq S
  BY <1>1, <1>2, NaturalInduction
<1> QED
  BY <1>3 DEF S

(* Documented, of any sequence of calls.                                   *)
DocumentedOf(cs, p) ==
  LET state[i \in 0..Len(cs)] == IF i = 0 THEN Start(p) ELSE DocumentedStep(state[i - 1], cs[i], p)
  IN state[Len(cs)]

LEMMA DocumentedStates ==
  ASSUME NEW cs, NEW p, Len(cs) \in Nat
  PROVE  \E f : IsDocumented(f, Len(cs), cs, p) /\ DocumentedOf(cs, p) = f[Len(cs)]
<1>1. \E f : IsDocumented(f, Len(cs), cs, p)
  BY DocumentedExists, Zenon
<1> DEFINE state == CHOOSE f : f = [i \in 0..Len(cs) |->
                                      IF i = 0 THEN Start(p) ELSE DocumentedStep(f[i - 1], cs[i], p)]
<1>2. IsDocumented(state, Len(cs), cs, p)
  BY <1>1, SMTT(30) DEF IsDocumented
<1>3. DocumentedOf(cs, p) = state[Len(cs)]
  BY DEF DocumentedOf
<1> HIDE DEF state
<1> QED
  BY <1>2, <1>3

(* One more call is one more step.                                         *)
LEMMA DocumentedAppend ==
  ASSUME NEW S, NEW cs \in Seq(S), NEW c \in S, NEW p
  PROVE  DocumentedOf(Append(cs, c), p) = DocumentedStep(DocumentedOf(cs, p), c, p)
<1> DEFINE n == Len(cs)
           ds == Append(cs, c)
<1>1. n \in Nat /\ Len(ds) = n + 1 /\ ds[n + 1] = c /\ SameUpTo(n, cs, ds)
  BY DEF SameUpTo
<1> HIDE DEF ds
<1>2. PICK f : IsDocumented(f, n, cs, p) /\ DocumentedOf(cs, p) = f[n]
  BY <1>1, DocumentedStates
<1>3. PICK g : IsDocumented(g, n + 1, ds, p) /\ DocumentedOf(ds, p) = g[n + 1]
  BY <1>1, DocumentedStates
<1> HIDE DEF n
<1>4. f[n] = g[n]
  <2>1. n \in Nat /\ n + 1 \in Nat /\ n <= n /\ n <= n + 1
    BY <1>1
  <2> QED
    BY <2>1, <1>1, <1>2, <1>3, DocumentedUnique
<1>5. g[n + 1] = DocumentedStep(g[n], ds[n + 1], p)
  <2>1. n + 1 \in 0..(n + 1) /\ n + 1 # 0 /\ (n + 1) - 1 = n
    BY <1>1
  <2> QED
    BY <2>1, <1>3 DEF IsDocumented
<1>6. DocumentedOf(ds, p) = DocumentedStep(DocumentedOf(cs, p), c, p)
  BY <1>1, <1>2, <1>3, <1>4, <1>5
<1> QED
  BY <1>6 DEF ds

LEMMA DocumentedNone ==
  ASSUME NEW p PROVE DocumentedOf(<< >>, p) = Start(p)
<1>1. Len(<< >>) = 0 /\ 0 \in Nat
  OBVIOUS
<1>2. PICK f : IsDocumented(f, 0, << >>, p) /\ DocumentedOf(<< >>, p) = f[0]
  BY <1>1, DocumentedStates
<1> QED
  BY <1>2 DEF IsDocumented

-----------------------------------------------------------------------------
(* One call: the rule and the documentation go on from equal decisions to  *)
(* equal decisions.                                                        *)

Sim(m, r) == IsMachine(m) /\ IsMachine(r) /\ Decision(m) = Decision(r)

(* What a call that does not diverge keeps, from a state that goes on.     *)
Keeps(c, n, r, p) ==
  /\ Sim(n, DocumentedStep(r, c, p)) /\ HasOption(n.mss)
  /\ n.verdict = "Continue" /\ TestsTcp(c) => p.l4 = IPPROTO.TCP

CallAgrees(c, exprs) ==
  /\ IsSequence(exprs)
  /\ \A p, m, r : /\ IsPacket(p) /\ Going(m) /\ Sim(m, r) /\ HasOption(m.mss)
                  /\ ~Divergent(c, p.host) /\ (c[1] = "syn" => p.l4 = IPPROTO.TCP)
                  => Keeps(c, RunFrom(m, exprs, p, NoSets), r, p)

Statements == {"accept", "drop", "masquerade", "dnat", "set_mss", "clamp_mss_to_pmtu", "log"}

(* Equal decisions, field by field.                                        *)
LEMMA DecisionFields ==
  ASSUME NEW m, NEW r
  PROVE  Decision(m) = Decision(r) <=>
           m.verdict = r.verdict /\ m.nat = r.nat /\ m.mss = r.mss /\ m.logs = r.logs
BY SMTT(30) DEF Decision

LEMMA BreakOutcome ==
  ASSUME NEW r, IsMachine(r)
  PROVE  Becomes(Break(r), "Break", r.nat, r.mss, r.logs)
BY ExceptBecomes, Zenon DEF Break

(* A method that matches.                                                  *)
LEMMA MatchAgrees ==
  ASSUME NEW c, c[1] \notin Statements, NEW p, NEW m, NEW r, NEW n, Going(m), Sim(m, r), HasOption(m.mss),
         Outcome(m, n, Matches(c, p)), TestsTcp(c) /\ Matches(c, p) => p.l4 = IPPROTO.TCP
  PROVE  Keeps(c, n, r, p)
<1> DEFINE matches == Matches(c, p)
<1>1. DocumentedStep(r, c, p) = IF matches THEN r ELSE Break(r)
  <2>1. r.verdict = "Continue"
    BY DecisionFields DEF Sim, Going
  <2>2. /\ c[1] # "accept" /\ c[1] # "drop" /\ c[1] # "masquerade" /\ c[1] # "dnat" /\ c[1] # "set_mss"
        /\ c[1] # "clamp_mss_to_pmtu" /\ c[1] # "log"
    BY DEF Statements
  <2> QED
    BY <2>1, <2>2, Zenon DEF DocumentedStep
<1>2. /\ IsMachine(n) /\ n.nat = m.nat /\ n.mss = m.mss /\ n.logs = m.logs
      /\ matches => n.verdict = "Continue"
      /\ ~matches => n.verdict = "Break"
  BY DEF Outcome, Same
<1>3. /\ IsMachine(r) /\ r.verdict = "Continue" /\ r.nat = m.nat /\ r.mss = m.mss /\ r.logs = m.logs
  BY DecisionFields DEF Sim, Going
<1> HIDE DEF matches
<1>4. Sim(n, DocumentedStep(r, c, p))
  <2>1. CASE matches
    BY <2>1, <1>1, <1>2, <1>3, DecisionFields DEF Sim
  <2>2. CASE ~matches
    <3>1. Becomes(Break(r), "Break", r.nat, r.mss, r.logs)
      BY <1>3, BreakOutcome
    <3>2. Sim(n, Break(r))
      BY <2>2, <3>1, <1>2, <1>3, DecisionFields, SMTT(30) DEF Sim, Becomes
    <3> QED
      BY <3>2, <2>2, <1>1
  <2> QED
    BY <2>1, <2>2
<1>5. n.verdict = "Continue" /\ TestsTcp(c) => p.l4 = IPPROTO.TCP
  BY <1>2 DEF matches
<1> QED
  BY <1>2, <1>4, <1>5 DEF Keeps

(* A statement: what the rule and the documentation change.                *)
LEMMA StatementAgrees ==
  ASSUME NEW c, c[1] \in Statements, NEW p, NEW r, NEW n, NEW verdict, NEW nat, NEW mss, NEW logs,
         Becomes(n, verdict, nat, mss, logs), Becomes(DocumentedStep(r, c, p), verdict, nat, mss, logs),
         HasOption(mss)
  PROVE  Keeps(c, n, r, p)
<1>1. Sim(n, DocumentedStep(r, c, p))
  BY DecisionFields DEF Becomes, Sim
<1>2. ~TestsTcp(c)
  BY SMTT(30) DEF TestsTcp, Statements
<1> QED
  BY <1>1, <1>2 DEF Keeps, Becomes

(* What Matches says of each call.                                         *)
LEMMA MatchesAre ==
  ASSUME NEW c, NEW p
  PROVE  /\ c[1] = "icmp" => (Matches(c, p) <=> p.l4 = IPPROTO.ICMP)
         /\ c[1] = "icmpv6" => (Matches(c, p) <=> p.l4 = IPPROTO.ICMPV6)
         /\ c[1] = "igmp" => (Matches(c, p) <=> p.l4 = IPPROTO.IGMP)
         /\ c[1] = "ip6in4" => (Matches(c, p) <=> p.nfproto = NFPROTO_IPV4 /\ p.l4 = IPPROTO.IPV6)
         /\ c[1] = "dport" => (Matches(c, p) <=> p.l4 = IPPROTO[c[3]] /\ p.dport = c[2])
         /\ c[1] = "protocol" => (Matches(c, p) <=> p.l4 = IPPROTO[c[2]])
         /\ c[1] = "established" => (Matches(c, p) <=> HasBit(p.ct, ESTABLISHED))
         /\ c[1] = "iface_id" => (Matches(c, p) <=> p.iif = c[2])
         /\ c[1] = "oface_id" => (Matches(c, p) <=> p.oif = c[2])
         /\ c[1] = "iface" => (Matches(c, p) <=> p.iifname = c[2])
         /\ c[1] = "oface" => (Matches(c, p) <=> p.oifname = c[2])
         /\ c[1] = "saddr" => (Matches(c, p) <=> p.saddr = c[2])
         /\ c[1] = "daddr" => (Matches(c, p) <=> p.daddr = c[2])
         /\ c[1] = "snetwork" => (Matches(c, p) <=> InNetwork(p.saddr, c[2]))
         /\ c[1] = "dnetwork" => (Matches(c, p) <=> InNetwork(p.daddr, c[2]))
         /\ c[1] = "syn" => (Matches(c, p) <=> p.l4 = IPPROTO.TCP /\ HasBit(p.flags, SYN))
BY Zenon DEF Matches


(* A method that matches the packets that its documentation names.         *)
MatchesAsDocumented(c, exprs) ==
  \A p, m : /\ IsPacket(p) /\ Going(m) /\ ~Divergent(c, p.host)
            /\ (c[1] = "syn" => p.l4 = IPPROTO.TCP)
            => Outcome(m, RunFrom(m, exprs, p, NoSets), Matches(c, p))

LEMMA MatchCallAgrees ==
  ASSUME NEW c, c[1] \notin Statements, NEW exprs, IsSequence(exprs), MatchesAsDocumented(c, exprs),
         \A p : TestsTcp(c) /\ Matches(c, p) => p.l4 = IPPROTO.TCP
  PROVE  CallAgrees(c, exprs)
<1>1. ASSUME NEW p, NEW m, NEW r, IsPacket(p), Going(m), Sim(m, r), HasOption(m.mss),
             ~Divergent(c, p.host), c[1] = "syn" => p.l4 = IPPROTO.TCP
      PROVE  Keeps(c, RunFrom(m, exprs, p, NoSets), r, p)
  <2>1. Outcome(m, RunFrom(m, exprs, p, NoSets), Matches(c, p))
    BY <1>1 DEF MatchesAsDocumented
  <2> QED
    BY <1>1, <2>1, MatchAgrees
<1> QED
  BY <1>1 DEF CallAgrees

(* The sequences that are put together from shorter ones.                  *)
LEMMA DportSequence ==
  ASSUME NEW port \in Nat, NEW proto \in Protocols PROVE IsSequence(dport(port, proto))
BY ShortSequences, SequenceConcat, Zenon DEF dport, match_port, protocol, l4proto

LEMMA Ip6in4Sequence == IsSequence(ip6in4)
<1> DEFINE a == <<Meta("NfProto"), Cmp("Eq", <<NFPROTO_IPV4>>)>>
           s == <<Build("IPv4", "Protocol"), Cmp("Eq", <<41>>)>>
<1>1. ip6in4 = a \o s
  BY DEF ip6in4
<1>2. IsSequence(a) /\ IsSequence(s)
  BY ShortSequences
<1> QED
  BY <1>1, <1>2, SequenceConcat

LEMMA AddressSequences ==
  ASSUME NEW ip PROVE IsSequence(saddr(ip)) /\ IsSequence(daddr(ip))
BY ShortSequences, SequenceConcat, Zenon DEF saddr, daddr, match_ip, nfproto

LEMMA NetworkSequences ==
  ASSUME NEW net PROVE IsSequence(snetwork(net)) /\ IsSequence(dnetwork(net))
BY ShortSequences, SequenceConcat, Zenon DEF snetwork, dnetwork, match_network, nfproto

(* A name that does not end in NUL bytes is compared as it is.             *)
LEMMA NameAsItIs ==
  ASSUME NEW a, IsInterfaceName(a), NEW name \in Seq(Byte), ~EndsInNul(name)
  PROVE  NulsBehind(a, name) <=> a = name
<1> DEFINE k == Len(a)
           l == Len(name)
<1>1. /\ k \in Nat /\ l \in Nat /\ DOMAIN name = 1..l /\ \A i \in 1..k : a[i] # 0
      /\ a = [i \in 1..k |-> a[i]] /\ name = [i \in 1..l |-> name[i]]
  BY SequenceLen DEF IsInterfaceName
<1>2. ASSUME NulsBehind(a, name) PROVE a = name
  <2>1. k <= l /\ \A i \in 1..l : name[i] = IF i <= k THEN a[i] ELSE 0
    BY <1>2 DEF NulsBehind
  <2> HIDE DEF k, l
  <2>2. k = l
    <3> SUFFICES ASSUME k # l PROVE FALSE
      OBVIOUS
    <3>1. k + 1 \in 1..l
      BY <1>1, <2>1
    <3>2. ASSUME NEW j \in 1..l PROVE name[j] = 0 <=> j >= k + 1
      <4>1. CASE j <= k
        BY <1>1, <2>1, <4>1
      <4>2. CASE ~(j <= k)
        BY <1>1, <2>1, <4>2
      <4> QED
        BY <4>1, <4>2
    <3>3. EndsInNul(name)
      BY <1>1, <3>1, <3>2, ZenonT(30) DEF EndsInNul
    <3> QED
      BY <3>3
  <2>3. \A i \in 1..l : a[i] = name[i]
    BY <1>1, <2>1, <2>2
  <2> QED
    BY <1>1, <2>2, <2>3
<1>3. ASSUME a = name PROVE NulsBehind(a, name)
  BY <1>1, <1>3 DEF NulsBehind
<1> QED
  BY <1>2, <1>3

LEMMA NameLength ==
  ASSUME NEW name \in Seq(Byte), ~InterfaceNameTooLong(name) PROVE Len(name) < IFNAMSIZ
BY SequenceLen DEF InterfaceNameTooLong, IFNAMSIZ

(* An address is in the network when its family and prefix are.            *)
LEMMA NetworkPrefix ==
  ASSUME NEW p, IsPacket(p), NEW net, IsNetwork(net)
  PROVE  /\ InNetwork(p.saddr, net) <=> p.nfproto = Family(net.ip) /\ SamePrefix(p.saddr, net)
         /\ InNetwork(p.daddr, net) <=> p.nfproto = Family(net.ip) /\ SamePrefix(p.daddr, net)
<1>1. ASSUME NEW a, IsAddress(a)
      PROVE  /\ IsV4(a) => Len(a) = 4
             /\ ~IsV4(a) => Len(a) = 16
  BY <1>1, AddressBytes DEF IsV4, IsBytes
<1>2. ASSUME NEW a, IsAddress(a) PROVE Len(a) = Len(net.ip) <=> Family(a) = Family(net.ip)
  <2>1. IsAddress(net.ip) /\ NFPROTO_IPV4 # NFPROTO_IPV6
    BY DEF IsNetwork, NFPROTO_IPV4, NFPROTO_IPV6
  <2>2. /\ IsV4(a) => Len(a) = 4
        /\ ~IsV4(a) => Len(a) = 16
        /\ IsV4(net.ip) => Len(net.ip) = 4
        /\ ~IsV4(net.ip) => Len(net.ip) = 16
    BY <1>1, <1>2, <2>1
  <2>3. Len(net.ip) = 4 => IsV4(net.ip)
    BY DEF IsV4
  <2>4. Len(a) = 4 => IsV4(a)
    BY DEF IsV4
  <2> QED
    BY <2>1, <2>2, <2>3, <2>4, ZenonT(30) DEF Family
<1>3. ASSUME NEW a, IsAddress(a), p.nfproto = Family(a)
      PROVE  InNetwork(a, net) <=> p.nfproto = Family(net.ip) /\ SamePrefix(a, net)
  BY <1>2, <1>3, Zenon DEF InNetwork, SamePrefix
<1> QED
  BY <1>3, PacketAddresses

(* The methods that compare the protocol number only.                      *)
LEMMA NumberCall ==
  ASSUME NEW c, c[1] \notin Statements, NEW number, \A p : Matches(c, p) <=> p.l4 = number,
         TestsTcp(c) => number = IPPROTO.TCP
  PROVE  CallAgrees(c, l4proto(number))
<1>1. IsSequence(l4proto(number))
  BY ShortSequences DEF l4proto
<1>2. MatchesAsDocumented(c, l4proto(number))
  <2> SUFFICES ASSUME NEW p, NEW m, Going(m)
               PROVE  Outcome(m, RunFrom(m, l4proto(number), p, NoSets), Matches(c, p))
    BY DEF MatchesAsDocumented
  <2>1. Outcome(m, RunFrom(m, l4proto(number), p, NoSets), p.l4 = number)
    BY L4protoOutcome
  <2> QED
    BY <2>1 DEF Outcome
<1> QED
  BY <1>1, <1>2, MatchCallAgrees

LEMMA IcmpCall ==
  CallAgrees(<<"icmp">>, icmp)
<1> DEFINE c == <<"icmp">>
<1>1. c[1] = "icmp" /\ c[1] \notin Statements
  BY DEF Statements
<1> HIDE DEF c
<1>2. \A p : Matches(c, p) <=> p.l4 = IPPROTO.ICMP
  BY <1>1, MatchesAre
<1>3. TestsTcp(c) => IPPROTO.ICMP = IPPROTO.TCP
  BY <1>1 DEF TestsTcp
<1>4. CallAgrees(c, l4proto(IPPROTO.ICMP))
  BY <1>1, <1>2, <1>3, NumberCall, ZenonT(30)
<1> QED
  BY <1>4 DEF c, icmp

LEMMA Icmpv6Call ==
  CallAgrees(<<"icmpv6">>, icmpv6)
<1> DEFINE c == <<"icmpv6">>
<1>1. c[1] = "icmpv6" /\ c[1] \notin Statements
  BY DEF Statements
<1> HIDE DEF c
<1>2. \A p : Matches(c, p) <=> p.l4 = IPPROTO.ICMPV6
  BY <1>1, MatchesAre
<1>3. TestsTcp(c) => IPPROTO.ICMPV6 = IPPROTO.TCP
  BY <1>1 DEF TestsTcp
<1>4. CallAgrees(c, l4proto(IPPROTO.ICMPV6))
  BY <1>1, <1>2, <1>3, NumberCall, Zenon
<1> QED
  BY <1>4 DEF c, icmpv6

LEMMA IgmpCall ==
  CallAgrees(<<"igmp">>, igmp)
<1> DEFINE c == <<"igmp">>
<1>1. c[1] = "igmp" /\ c[1] \notin Statements
  BY DEF Statements
<1> HIDE DEF c
<1>2. \A p : Matches(c, p) <=> p.l4 = IPPROTO.IGMP
  BY <1>1, MatchesAre
<1>3. TestsTcp(c) => IPPROTO.IGMP = IPPROTO.TCP
  BY <1>1 DEF TestsTcp
<1>4. CallAgrees(c, l4proto(IPPROTO.IGMP))
  BY <1>1, <1>2, <1>3, NumberCall, ZenonT(30)
<1> QED
  BY <1>4 DEF c, igmp

LEMMA ProtocolCall ==
  ASSUME NEW proto \in Protocols
  PROVE  CallAgrees(<<"protocol", proto>>, protocol(proto))
<1> DEFINE c == <<"protocol", proto>>
<1>1. c[1] = "protocol" /\ c[1] \notin Statements /\ c[2] = proto /\ c[Len(c)] = proto
  BY DEF Statements
<1> HIDE DEF c
<1>2. \A p : Matches(c, p) <=> p.l4 = IPPROTO[proto]
  BY <1>1, MatchesAre
<1>3. TestsTcp(c) => IPPROTO[proto] = IPPROTO.TCP
  BY <1>1 DEF TestsTcp
<1>4. CallAgrees(c, l4proto(IPPROTO[proto]))
  BY <1>1, <1>2, <1>3, NumberCall, ZenonT(30)
<1> QED
  BY <1>4 DEF c, protocol

LEMMA Ip6in4Call ==
  CallAgrees(<<"ip6in4">>, ip6in4)
<1> DEFINE c == <<"ip6in4">>
<1>1. c[1] = "ip6in4" /\ c[1] \notin Statements
  BY DEF Statements
<1>2. \A p : TestsTcp(c) /\ Matches(c, p) => p.l4 = IPPROTO.TCP
  BY <1>1 DEF TestsTcp
<1>3. IsSequence(ip6in4)
  BY Ip6in4Sequence
<1> HIDE DEF c
<1>4. MatchesAsDocumented(c, ip6in4)
  <2> SUFFICES ASSUME NEW p, NEW m, IsPacket(p), Going(m), ~Divergent(c, p.host),
                      c[1] = "syn" => p.l4 = IPPROTO.TCP
               PROVE  Outcome(m, RunFrom(m, ip6in4, p, NoSets), Matches(c, p))
    BY DEF MatchesAsDocumented
  <2>1. Outcome(m, RunFrom(m, ip6in4, p, NoSets), p.nfproto = NFPROTO_IPV4 /\ p.l4 = IPPROTO.IPV6)
    BY Ip6in4Outcome
  <2>2. Matches(c, p) <=> p.nfproto = NFPROTO_IPV4 /\ p.l4 = IPPROTO.IPV6
    BY <1>1, MatchesAre
  <2> QED
    BY <2>1, <2>2 DEF Outcome
<1>5. CallAgrees(c, ip6in4)
  BY <1>1, <1>2, <1>3, <1>4, MatchCallAgrees, SMTT(30)
<1> QED
  BY <1>5 DEF c

LEMMA DportCall ==
  ASSUME NEW port \in Nat, NEW proto \in Protocols
  PROVE  CallAgrees(<<"dport", port, proto>>, dport(port, proto))
<1> DEFINE c == <<"dport", port, proto>>
<1>1. c[1] = "dport" /\ c[1] \notin Statements /\ c[2] = port /\ c[3] = proto /\ c[Len(c)] = proto
  BY DEF Statements
<1>2. \A p : TestsTcp(c) /\ Matches(c, p) => p.l4 = IPPROTO.TCP
  BY <1>1, MatchesAre DEF TestsTcp
<1>3. IsSequence(dport(port, proto))
  BY DportSequence, SMTT(30)
<1> HIDE DEF c
<1>4. MatchesAsDocumented(c, dport(port, proto))
  <2> SUFFICES ASSUME NEW p, NEW m, IsPacket(p), Going(m), ~Divergent(c, p.host),
                      c[1] = "syn" => p.l4 = IPPROTO.TCP
               PROVE  Outcome(m, RunFrom(m, dport(port, proto), p, NoSets), Matches(c, p))
    BY DEF MatchesAsDocumented
  <2>1. Outcome(m, RunFrom(m, dport(port, proto), p, NoSets), p.l4 = IPPROTO[proto] /\ p.dport = port)
    BY DportOutcome
  <2>2. Matches(c, p) <=> p.l4 = IPPROTO[proto] /\ p.dport = port
    BY <1>1, MatchesAre
  <2> QED
    BY <2>1, <2>2 DEF Outcome
<1>5. CallAgrees(c, dport(port, proto))
  BY <1>1, <1>2, <1>3, <1>4, MatchCallAgrees, SMTT(30)
<1> QED
  BY <1>5 DEF c

LEMMA EstablishedCall ==
  CallAgrees(<<"established">>, established)
<1> DEFINE c == <<"established">>
<1>1. c[1] = "established" /\ c[1] \notin Statements
  BY DEF Statements
<1>2. \A p : TestsTcp(c) /\ Matches(c, p) => p.l4 = IPPROTO.TCP
  BY <1>1 DEF TestsTcp
<1>3. IsSequence(established)
  BY ShortSequences DEF established
<1> HIDE DEF c
<1>4. MatchesAsDocumented(c, established)
  <2> SUFFICES ASSUME NEW p, NEW m, IsPacket(p), Going(m), ~Divergent(c, p.host),
                      c[1] = "syn" => p.l4 = IPPROTO.TCP
               PROVE  Outcome(m, RunFrom(m, established, p, NoSets), Matches(c, p))
    BY DEF MatchesAsDocumented
  <2>0. p.host = "little"
    BY <1>1 DEF Divergent, IsPacket
  <2>1. Outcome(m, RunFrom(m, established, p, NoSets), (p.ct \div ESTABLISHED) % 2 = 1)
    BY <2>0, EstablishedOutcome, SMTT(30)
  <2>2. Matches(c, p) <=> (p.ct \div ESTABLISHED) % 2 = 1
    BY <1>1, MatchesAre DEF HasBit
  <2> QED
    BY <2>1, <2>2, SMTT(30) DEF Outcome
<1>5. CallAgrees(c, established)
  BY <1>1, <1>2, <1>3, <1>4, MatchCallAgrees, SMTT(30)
<1> QED
  BY <1>5 DEF c

LEMMA IfaceIdCall ==
  ASSUME NEW index \in Nat
  PROVE  CallAgrees(<<"iface_id", index>>, iface_id(index))
<1> DEFINE c == <<"iface_id", index>>
<1>1. c[1] = "iface_id" /\ c[1] \notin Statements /\ c[2] = index
  BY DEF Statements
<1>2. \A p : TestsTcp(c) /\ Matches(c, p) => p.l4 = IPPROTO.TCP
  BY <1>1 DEF TestsTcp
<1>3. IsSequence(iface_id(index))
  BY ShortSequences, SMTT(30) DEF iface_id
<1> HIDE DEF c
<1>4. MatchesAsDocumented(c, iface_id(index))
  <2> SUFFICES ASSUME NEW p, NEW m, IsPacket(p), Going(m), ~Divergent(c, p.host),
                      c[1] = "syn" => p.l4 = IPPROTO.TCP
               PROVE  Outcome(m, RunFrom(m, iface_id(index), p, NoSets), Matches(c, p))
    BY DEF MatchesAsDocumented
  <2>0. p.host = "little" => BE32(index) = LE32(index)
    BY <1>1, SMTT(30) DEF Divergent
  <2>1. Outcome(m, RunFrom(m, iface_id(index), p, NoSets), p.iif = index)
    BY <2>0, IfaceIdOutcome, SMTT(30)
  <2>2. Matches(c, p) <=> p.iif = index
    BY <1>1, MatchesAre, SMTT(30)
  <2> QED
    BY <2>1, <2>2 DEF Outcome
<1>5. CallAgrees(c, iface_id(index))
  BY <1>1, <1>2, <1>3, <1>4, MatchCallAgrees, SMTT(30)
<1> QED
  BY <1>5 DEF c

LEMMA OfaceIdCall ==
  ASSUME NEW index \in Nat
  PROVE  CallAgrees(<<"oface_id", index>>, oface_id(index))
<1> DEFINE c == <<"oface_id", index>>
<1>1. c[1] = "oface_id" /\ c[1] \notin Statements /\ c[2] = index
  BY DEF Statements
<1>2. \A p : TestsTcp(c) /\ Matches(c, p) => p.l4 = IPPROTO.TCP
  BY <1>1 DEF TestsTcp
<1>3. IsSequence(oface_id(index))
  BY ShortSequences DEF oface_id
<1> HIDE DEF c
<1>4. MatchesAsDocumented(c, oface_id(index))
  <2> SUFFICES ASSUME NEW p, NEW m, IsPacket(p), Going(m), ~Divergent(c, p.host),
                      c[1] = "syn" => p.l4 = IPPROTO.TCP
               PROVE  Outcome(m, RunFrom(m, oface_id(index), p, NoSets), Matches(c, p))
    BY DEF MatchesAsDocumented
  <2>0. p.host = "little" => BE32(index) = LE32(index)
    BY <1>1 DEF Divergent
  <2>1. Outcome(m, RunFrom(m, oface_id(index), p, NoSets), p.oif = index)
    BY <2>0, IfaceIdOutcome, SMTT(30)
  <2>2. Matches(c, p) <=> p.oif = index
    BY <1>1, MatchesAre, SMTT(30)
  <2> QED
    BY <2>1, <2>2 DEF Outcome
<1>5. CallAgrees(c, oface_id(index))
  BY <1>1, <1>2, <1>3, <1>4, MatchCallAgrees, SMTT(30)
<1> QED
  BY <1>5 DEF c

LEMMA IfaceCall ==
  ASSUME NEW name \in Seq(Byte), ~InterfaceNameTooLong(name)
  PROVE  CallAgrees(<<"iface", name>>, iface(name))
<1> DEFINE c == <<"iface", name>>
<1>1. c[1] = "iface" /\ c[1] \notin Statements /\ c[2] = name
  BY DEF Statements
<1>2. \A p : TestsTcp(c) /\ Matches(c, p) => p.l4 = IPPROTO.TCP
  BY <1>1 DEF TestsTcp
<1>3. IsSequence(iface(name))
  BY ShortSequences DEF iface
<1> HIDE DEF c
<1>4. MatchesAsDocumented(c, iface(name))
  <2> SUFFICES ASSUME NEW p, NEW m, IsPacket(p), Going(m), ~Divergent(c, p.host),
                      c[1] = "syn" => p.l4 = IPPROTO.TCP
               PROVE  Outcome(m, RunFrom(m, iface(name), p, NoSets), Matches(c, p))
    BY DEF MatchesAsDocumented
  <2>0. ~EndsInNul(name) /\ Len(name) < IFNAMSIZ
    BY <1>1, NameLength, Zenon DEF Divergent
  <2>1. Outcome(m, RunFrom(m, iface(name), p, NoSets), NulsBehind(p.iifname, name))
    BY <2>0, IfaceReads, SMTT(30)
  <2>2. NulsBehind(p.iifname, name) <=> p.iifname = name
    BY <2>0, NameAsItIs, ZenonT(30) DEF IsPacket
  <2>3. Matches(c, p) <=> p.iifname = name
    BY <1>1, MatchesAre
  <2> QED
    BY <2>1, <2>2, <2>3, SMTT(30) DEF Outcome
<1>5. CallAgrees(c, iface(name))
  BY <1>1, <1>2, <1>3, <1>4, MatchCallAgrees, ZenonT(30)
<1> QED
  BY <1>5 DEF c

LEMMA OfaceCall ==
  ASSUME NEW name \in Seq(Byte), ~InterfaceNameTooLong(name)
  PROVE  CallAgrees(<<"oface", name>>, oface(name))
<1> DEFINE c == <<"oface", name>>
<1>1. c[1] = "oface" /\ c[1] \notin Statements /\ c[2] = name
  BY DEF Statements
<1>2. \A p : TestsTcp(c) /\ Matches(c, p) => p.l4 = IPPROTO.TCP
  BY <1>1 DEF TestsTcp
<1>3. IsSequence(oface(name))
  BY ShortSequences, ZenonT(30) DEF oface
<1> HIDE DEF c
<1>4. MatchesAsDocumented(c, oface(name))
  <2> SUFFICES ASSUME NEW p, NEW m, IsPacket(p), Going(m), ~Divergent(c, p.host),
                      c[1] = "syn" => p.l4 = IPPROTO.TCP
               PROVE  Outcome(m, RunFrom(m, oface(name), p, NoSets), Matches(c, p))
    BY DEF MatchesAsDocumented
  <2>0. ~EndsInNul(name) /\ Len(name) < IFNAMSIZ
    BY <1>1, NameLength, Zenon DEF Divergent
  <2>1. Outcome(m, RunFrom(m, oface(name), p, NoSets), NulsBehind(p.oifname, name))
    BY <2>0, IfaceReads, SMTT(30)
  <2>2. NulsBehind(p.oifname, name) <=> p.oifname = name
    BY <2>0, NameAsItIs, ZenonT(30) DEF IsPacket
  <2>3. Matches(c, p) <=> p.oifname = name
    BY <1>1, MatchesAre
  <2> QED
    BY <2>1, <2>2, <2>3, SMTT(30) DEF Outcome
<1>5. CallAgrees(c, oface(name))
  BY <1>1, <1>2, <1>3, <1>4, MatchCallAgrees, SMTT(30)
<1> QED
  BY <1>5 DEF c

LEMMA SaddrCall ==
  ASSUME NEW ip, IsAddress(ip)
  PROVE  CallAgrees(<<"saddr", ip>>, saddr(ip))
<1> DEFINE c == <<"saddr", ip>>
<1>1. c[1] = "saddr" /\ c[1] \notin Statements /\ c[2] = ip
  BY DEF Statements
<1>2. \A p : TestsTcp(c) /\ Matches(c, p) => p.l4 = IPPROTO.TCP
  BY <1>1 DEF TestsTcp
<1>3. IsSequence(saddr(ip))
  BY AddressSequences
<1> HIDE DEF c
<1>4. MatchesAsDocumented(c, saddr(ip))
  <2> SUFFICES ASSUME NEW p, NEW m, IsPacket(p), Going(m), ~Divergent(c, p.host),
                      c[1] = "syn" => p.l4 = IPPROTO.TCP
               PROVE  Outcome(m, RunFrom(m, saddr(ip), p, NoSets), Matches(c, p))
    BY DEF MatchesAsDocumented
  <2>1. Outcome(m, RunFrom(m, saddr(ip), p, NoSets), p.saddr = ip)
    BY AddressOutcome, SMTT(30)
  <2>2. Matches(c, p) <=> p.saddr = ip
    BY <1>1, MatchesAre, ZenonT(30)
  <2> QED
    BY <2>1, <2>2, ZenonT(30) DEF Outcome
<1>5. CallAgrees(c, saddr(ip))
  BY <1>1, <1>2, <1>3, <1>4, MatchCallAgrees, ZenonT(30)
<1> QED
  BY <1>5 DEF c

LEMMA DaddrCall ==
  ASSUME NEW ip, IsAddress(ip)
  PROVE  CallAgrees(<<"daddr", ip>>, daddr(ip))
<1> DEFINE c == <<"daddr", ip>>
<1>1. c[1] = "daddr" /\ c[1] \notin Statements /\ c[2] = ip
  BY DEF Statements
<1>2. \A p : TestsTcp(c) /\ Matches(c, p) => p.l4 = IPPROTO.TCP
  BY <1>1 DEF TestsTcp
<1>3. IsSequence(daddr(ip))
  BY AddressSequences, SMTT(30)
<1> HIDE DEF c
<1>4. MatchesAsDocumented(c, daddr(ip))
  <2> SUFFICES ASSUME NEW p, NEW m, IsPacket(p), Going(m), ~Divergent(c, p.host),
                      c[1] = "syn" => p.l4 = IPPROTO.TCP
               PROVE  Outcome(m, RunFrom(m, daddr(ip), p, NoSets), Matches(c, p))
    BY DEF MatchesAsDocumented
  <2>1. Outcome(m, RunFrom(m, daddr(ip), p, NoSets), p.daddr = ip)
    BY AddressOutcome, ZenonT(30)
  <2>2. Matches(c, p) <=> p.daddr = ip
    BY <1>1, MatchesAre, ZenonT(30)
  <2> QED
    BY <2>1, <2>2, ZenonT(30) DEF Outcome
<1>5. CallAgrees(c, daddr(ip))
  BY <1>1, <1>2, <1>3, <1>4, MatchCallAgrees, ZenonT(30)
<1> QED
  BY <1>5 DEF c

LEMMA SnetworkCall ==
  ASSUME NEW net, IsNetwork(net)
  PROVE  CallAgrees(<<"snetwork", net>>, snetwork(net))
<1> DEFINE c == <<"snetwork", net>>
<1>1. c[1] = "snetwork" /\ c[1] \notin Statements /\ c[2] = net
  BY DEF Statements
<1>2. \A p : TestsTcp(c) /\ Matches(c, p) => p.l4 = IPPROTO.TCP
  BY <1>1, ZenonT(30) DEF TestsTcp
<1>3. IsSequence(snetwork(net))
  BY NetworkSequences
<1> HIDE DEF c
<1>4. MatchesAsDocumented(c, snetwork(net))
  <2> SUFFICES ASSUME NEW p, NEW m, IsPacket(p), Going(m), ~Divergent(c, p.host),
                      c[1] = "syn" => p.l4 = IPPROTO.TCP
               PROVE  Outcome(m, RunFrom(m, snetwork(net), p, NoSets), Matches(c, p))
    BY DEF MatchesAsDocumented
  <2>1. Outcome(m, RunFrom(m, snetwork(net), p, NoSets), (p.nfproto = Family(net.ip) /\ SamePrefix(p.saddr, net)))
    BY NetworkOutcome, ZenonT(30)
  <2>2. Matches(c, p) <=> (p.nfproto = Family(net.ip) /\ SamePrefix(p.saddr, net))
    BY <1>1, MatchesAre, NetworkPrefix, ZenonT(30)
  <2> QED
    BY <2>1, <2>2, ZenonT(30) DEF Outcome
<1>5. CallAgrees(c, snetwork(net))
  BY <1>1, <1>2, <1>3, <1>4, MatchCallAgrees, ZenonT(30)
<1> QED
  BY <1>5 DEF c

LEMMA DnetworkCall ==
  ASSUME NEW net, IsNetwork(net)
  PROVE  CallAgrees(<<"dnetwork", net>>, dnetwork(net))
<1> DEFINE c == <<"dnetwork", net>>
<1>1. c[1] = "dnetwork" /\ c[1] \notin Statements /\ c[2] = net
  BY DEF Statements
<1>2. \A p : TestsTcp(c) /\ Matches(c, p) => p.l4 = IPPROTO.TCP
  BY <1>1, ZenonT(30) DEF TestsTcp
<1>3. IsSequence(dnetwork(net))
  BY NetworkSequences
<1> HIDE DEF c
<1>4. MatchesAsDocumented(c, dnetwork(net))
  <2> SUFFICES ASSUME NEW p, NEW m, IsPacket(p), Going(m), ~Divergent(c, p.host),
                      c[1] = "syn" => p.l4 = IPPROTO.TCP
               PROVE  Outcome(m, RunFrom(m, dnetwork(net), p, NoSets), Matches(c, p))
    BY DEF MatchesAsDocumented
  <2>1. Outcome(m, RunFrom(m, dnetwork(net), p, NoSets), (p.nfproto = Family(net.ip) /\ SamePrefix(p.daddr, net)))
    BY NetworkOutcome, ZenonT(30)
  <2>2. Matches(c, p) <=> (p.nfproto = Family(net.ip) /\ SamePrefix(p.daddr, net))
    BY <1>1, MatchesAre, NetworkPrefix, ZenonT(30)
  <2> QED
    BY <2>1, <2>2, ZenonT(30) DEF Outcome
<1>5. CallAgrees(c, dnetwork(net))
  BY <1>1, <1>2, <1>3, <1>4, MatchCallAgrees, ZenonT(30)
<1> QED
  BY <1>5 DEF c

LEMMA SynCall ==
  CallAgrees(<<"syn">>, syn)
<1> DEFINE c == <<"syn">>
<1>1. c[1] = "syn" /\ c[1] \notin Statements
  BY DEF Statements
<1>2. \A p : TestsTcp(c) /\ Matches(c, p) => p.l4 = IPPROTO.TCP
  BY <1>1 DEF TestsTcp
<1>3. IsSequence(syn)
  BY ShortSequences DEF syn
<1> HIDE DEF c
<1>4. MatchesAsDocumented(c, syn)
  <2> SUFFICES ASSUME NEW p, NEW m, IsPacket(p), Going(m), ~Divergent(c, p.host),
                      c[1] = "syn" => p.l4 = IPPROTO.TCP
               PROVE  Outcome(m, RunFrom(m, syn, p, NoSets), Matches(c, p))
    BY DEF MatchesAsDocumented
  <2>0. p.l4 = IPPROTO.TCP
    BY <1>1
  <2>1. Outcome(m, RunFrom(m, syn, p, NoSets), (p.flags \div SYN) % 2 = 1)
    BY <2>0, SynOutcome, ZenonT(30)
  <2>2. Matches(c, p) <=> (p.flags \div SYN) % 2 = 1
    BY <1>1, <2>0, MatchesAre, ZenonT(30) DEF HasBit
  <2> QED
    BY <2>1, <2>2 DEF Outcome
<1>5. CallAgrees(c, syn)
  BY <1>1, <1>2, <1>3, <1>4, MatchCallAgrees, ZenonT(30)
<1> QED
  BY <1>5 DEF c

(* What the documentation says of each statement.                          *)
LEMMA DocumentedStatements ==
  ASSUME NEW r, Going(r), NEW c, NEW p
  PROVE  /\ c[1] = "accept" => Becomes(DocumentedStep(r, c, p), "Accept", r.nat, r.mss, r.logs)
         /\ c[1] = "drop" => Becomes(DocumentedStep(r, c, p), "Drop", r.nat, r.mss, r.logs)
         /\ c[1] = "masquerade" =>
              Becomes(DocumentedStep(r, c, p), "Accept", <<"masquerade">>, r.mss, r.logs)
         /\ c[1] = "log" =>
              Becomes(DocumentedStep(r, c, p), "Continue", r.nat, r.mss, Append(r.logs, Log(NoLogGroup, c[2])))
<1>1. r.verdict = "Continue" /\ IsMachine(r)
  BY DEF Going
<1>2. ASSUME c[1] = "accept" PROVE Becomes(DocumentedStep(r, c, p), "Accept", r.nat, r.mss, r.logs)
  <2>1. DocumentedStep(r, c, p) = [r EXCEPT !.verdict = "Accept"]
    BY <1>1, <1>2, ZenonT(30) DEF DocumentedStep
  <2>2. Becomes([r EXCEPT !.verdict = "Accept"], "Accept", r.nat, r.mss, r.logs)
    BY <1>1, ExceptBecomes, ZenonT(30)
  <2> QED
    BY <2>1, <2>2, ZenonT(30)
<1>3. ASSUME c[1] = "drop" PROVE Becomes(DocumentedStep(r, c, p), "Drop", r.nat, r.mss, r.logs)
  <2>1. DocumentedStep(r, c, p) = [r EXCEPT !.verdict = "Drop"]
    BY <1>1, <1>3, ZenonT(30) DEF DocumentedStep
  <2>2. Becomes([r EXCEPT !.verdict = "Drop"], "Drop", r.nat, r.mss, r.logs)
    BY <1>1, ExceptBecomes, ZenonT(30)
  <2> QED
    BY <2>1, <2>2, ZenonT(30)
<1>4. ASSUME c[1] = "masquerade"
      PROVE  Becomes(DocumentedStep(r, c, p), "Accept", <<"masquerade">>, r.mss, r.logs)
  <2>1. DocumentedStep(r, c, p) = [r EXCEPT !.verdict = "Accept", !.nat = <<"masquerade">>]
    BY <1>1, <1>4, ZenonT(30) DEF DocumentedStep
  <2>2. Becomes([r EXCEPT !.verdict = "Accept", !.nat = <<"masquerade">>],
                "Accept", <<"masquerade">>, r.mss, r.logs)
    BY <1>1, ExceptBecomes, Zenon
  <2> QED
    BY <2>1, <2>2, Zenon
<1>5. ASSUME c[1] = "log"
      PROVE  Becomes(DocumentedStep(r, c, p), "Continue", r.nat, r.mss, Append(r.logs, Log(NoLogGroup, c[2])))
  <2>1. DocumentedStep(r, c, p) = [r EXCEPT !.logs = Append(r.logs, Log(NoLogGroup, c[2]))]
    BY <1>1, <1>5, ZenonT(30) DEF DocumentedStep
  <2> DEFINE logs == Append(r.logs, Log(NoLogGroup, c[2]))
  <2> HIDE DEF logs
  <2>2. Becomes([r EXCEPT !.logs = logs], r.verdict, r.nat, r.mss, logs)
    BY <1>1, ExceptBecomes, ZenonT(30)
  <2> QED
    BY <1>1, <2>1, <2>2, ZenonT(30) DEF logs
<1> QED
  BY <1>2, <1>3, <1>4, <1>5, SMTT(30)

LEMMA SimFields ==
  ASSUME NEW m, NEW r, Going(m), Sim(m, r)
  PROVE  Going(r) /\ r.nat = m.nat /\ r.mss = m.mss /\ r.logs = m.logs
BY DecisionFields DEF Sim, Going

LEMMA AcceptCall ==
  CallAgrees(<<"accept">>, accept)
<1> DEFINE c == <<"accept">>
           exprs == accept
<1>1. c[1] = "accept" /\ c[1] \in Statements
  BY DEF Statements
<1>2. IsSequence(exprs)
  BY ShortSequences DEF accept
<1> HIDE DEF c, exprs
<1>3. ASSUME NEW p, NEW m, NEW r, Going(m), Sim(m, r), HasOption(m.mss)
      PROVE  Keeps(c, RunFrom(m, exprs, p, NoSets), r, p)
  <2>1. Becomes(RunFrom(m, exprs, p, NoSets), "Accept", m.nat, m.mss, m.logs)
    BY <1>3, VerdictRun DEF exprs, accept
  <2>2. Going(r) /\ r.nat = m.nat /\ r.mss = m.mss /\ r.logs = m.logs
    BY <1>3, SimFields
  <2>3. Becomes(DocumentedStep(r, c, p), "Accept", m.nat, m.mss, m.logs)
    BY <1>1, <2>2, DocumentedStatements, ZenonT(30)
  <2> QED
    BY <1>1, <1>3, <2>1, <2>3, StatementAgrees, ZenonT(30)
<1>4. CallAgrees(c, exprs)
  BY <1>2, <1>3 DEF CallAgrees
<1> QED
  BY <1>4 DEF c, exprs

LEMMA DropCall ==
  CallAgrees(<<"drop">>, drop)
<1> DEFINE c == <<"drop">>
           exprs == drop
<1>1. c[1] = "drop" /\ c[1] \in Statements
  BY DEF Statements
<1>2. IsSequence(exprs)
  BY ShortSequences DEF drop
<1> HIDE DEF c, exprs
<1>3. ASSUME NEW p, NEW m, NEW r, Going(m), Sim(m, r), HasOption(m.mss)
      PROVE  Keeps(c, RunFrom(m, exprs, p, NoSets), r, p)
  <2>1. Becomes(RunFrom(m, exprs, p, NoSets), "Drop", m.nat, m.mss, m.logs)
    BY <1>3, VerdictRun, ZenonT(30) DEF exprs, drop
  <2>2. Going(r) /\ r.nat = m.nat /\ r.mss = m.mss /\ r.logs = m.logs
    BY <1>3, SimFields
  <2>3. Becomes(DocumentedStep(r, c, p), "Drop", m.nat, m.mss, m.logs)
    BY <1>1, <2>2, DocumentedStatements, ZenonT(30)
  <2> QED
    BY <1>1, <1>3, <2>1, <2>3, StatementAgrees, ZenonT(30)
<1>4. CallAgrees(c, exprs)
  BY <1>2, <1>3 DEF CallAgrees
<1> QED
  BY <1>4 DEF c, exprs

LEMMA MasqueradeCall ==
  CallAgrees(<<"masquerade">>, masquerade)
<1> DEFINE c == <<"masquerade">>
           exprs == masquerade
<1>1. c[1] = "masquerade" /\ c[1] \in Statements
  BY DEF Statements
<1>2. IsSequence(exprs)
  BY ShortSequences DEF masquerade
<1> HIDE DEF c, exprs
<1>3. ASSUME NEW p, NEW m, NEW r, Going(m), Sim(m, r), HasOption(m.mss)
      PROVE  Keeps(c, RunFrom(m, exprs, p, NoSets), r, p)
  <2>1. Becomes(RunFrom(m, exprs, p, NoSets), "Accept", <<"masquerade">>, m.mss, m.logs)
    BY <1>3, MasqueradeRun DEF exprs
  <2>2. Going(r) /\ r.nat = m.nat /\ r.mss = m.mss /\ r.logs = m.logs
    BY <1>3, SimFields
  <2>3. Becomes(DocumentedStep(r, c, p), "Accept", <<"masquerade">>, m.mss, m.logs)
    BY <1>1, <2>2, DocumentedStatements, ZenonT(30)
  <2> QED
    BY <1>1, <1>3, <2>1, <2>3, StatementAgrees, ZenonT(30)
<1>4. CallAgrees(c, exprs)
  BY <1>2, <1>3 DEF CallAgrees
<1> QED
  BY <1>4 DEF c, exprs

LEMMA LogCall ==
  ASSUME NEW prefix
  PROVE  CallAgrees(<<"log", prefix>>, <<Log(NoLogGroup, prefix)>>)
<1> DEFINE c == <<"log", prefix>>
           exprs == <<Log(NoLogGroup, prefix)>>
<1>1. c[1] = "log" /\ c[1] \in Statements /\ c[2] = prefix
  BY DEF Statements
<1>2. IsSequence(exprs)
  BY ShortSequences
<1> HIDE DEF c, exprs
<1>3. ASSUME NEW p, NEW m, NEW r, Going(m), Sim(m, r), HasOption(m.mss)
      PROVE  Keeps(c, RunFrom(m, exprs, p, NoSets), r, p)
  <2>1. Becomes(RunFrom(m, exprs, p, NoSets), "Continue", m.nat, m.mss, Append(m.logs, Log(NoLogGroup, prefix)))
    BY <1>3, LogRun, ZenonT(30) DEF exprs
  <2>2. Going(r) /\ r.nat = m.nat /\ r.mss = m.mss /\ r.logs = m.logs
    BY <1>3, SimFields
  <2>3. Becomes(DocumentedStep(r, c, p), "Continue", m.nat, m.mss, Append(m.logs, Log(NoLogGroup, prefix)))
    BY <1>1, <2>2, DocumentedStatements, ZenonT(30)
  <2> QED
    BY <1>1, <1>3, <2>1, <2>3, StatementAgrees, ZenonT(30)
<1>4. CallAgrees(c, exprs)
  BY <1>2, <1>3 DEF CallAgrees
<1> QED
  BY <1>4 DEF c, exprs

(* dnat, and the MSS that set_mss and clamp_mss_to_pmtu write.             *)
LEMMA DocumentedDnat ==
  ASSUME NEW r, Going(r), NEW c, c[1] = "dnat", NEW p
  PROVE  /\ Len(c[2]) # Len(p.daddr) => Becomes(DocumentedStep(r, c, p), "Continue", r.nat, r.mss, r.logs)
         /\ Len(c[2]) = Len(p.daddr) =>
              Becomes(DocumentedStep(r, c, p), "Accept",
                      <<c[2], IF c[3] = NoPort THEN << >> ELSE BE16(c[3])>>, r.mss, r.logs)
<1>1. r.verdict = "Continue" /\ IsMachine(r)
  BY DEF Going
<1> DEFINE nat == <<c[2], IF c[3] = NoPort THEN << >> ELSE BE16(c[3])>>
<1>2. DocumentedStep(r, c, p) =
        IF Len(c[2]) # Len(p.daddr) THEN r ELSE [r EXCEPT !.verdict = "Accept", !.nat = nat]
  BY <1>1, ZenonT(30) DEF DocumentedStep
<1> HIDE DEF nat
<1>3. Becomes([r EXCEPT !.verdict = "Accept", !.nat = nat], "Accept", nat, r.mss, r.logs)
  BY <1>1, ExceptBecomes, ZenonT(30)
<1>4. Becomes(r, "Continue", r.nat, r.mss, r.logs)
  BY <1>1 DEF Becomes
<1> QED
  BY <1>2, <1>3, <1>4, ZenonT(30) DEF nat

LEMMA DocumentedMss ==
  ASSUME NEW r, Going(r), NEW c, NEW p
  PROVE  /\ c[1] = "set_mss" => MssOutcome(r, DocumentedStep(r, c, p), p, c[2])
         /\ c[1] = "clamp_mss_to_pmtu" => MssOutcome(r, DocumentedStep(r, c, p), p, p.pathMss)
<1>1. r.verdict = "Continue" /\ IsMachine(r)
  BY DEF Going
<1>2. ASSUME NEW value PROVE MssOutcome(r, WithMss(r, value, p), p, value)
  <2>1. Becomes(Break(r), "Break", r.nat, r.mss, r.logs)
    BY <1>1, BreakOutcome
  <2>2. Becomes(r, "Continue", r.nat, r.mss, r.logs)
    BY <1>1, SMTT(30) DEF Becomes
  <2> DEFINE mss == <<2, 4>> \o BE16(value)
  <2> HIDE DEF mss
  <2>3. Becomes([r EXCEPT !.mss = mss], "Continue", r.nat, mss, r.logs)
    BY <1>1, ExceptBecomes, ZenonT(30)
  <2>4. mss = MssOption(value)
    BY DEF mss, MssOption
  <2>5. WithMss(r, value, p) =
          IF p.l4 # IPPROTO.TCP THEN Break(r) ELSE IF r.mss = << >> THEN r ELSE [r EXCEPT !.mss = mss]
    BY Zenon DEF WithMss, mss
  <2> QED
    BY <2>1, <2>2, <2>3, <2>4, <2>5, ZenonT(30) DEF MssOutcome
<1>3. /\ c[1] = "set_mss" => DocumentedStep(r, c, p) = WithMss(r, c[2], p)
      /\ c[1] = "clamp_mss_to_pmtu" => DocumentedStep(r, c, p) = WithMss(r, p.pathMss, p)
  BY <1>1, ZenonT(30) DEF DocumentedStep
<1> QED
  BY <1>2, <1>3, Zenon

LEMMA MssAgrees ==
  ASSUME NEW c, c[1] \in Statements, NEW p, NEW m, NEW r, NEW n, NEW value \in Nat, Going(m), Sim(m, r),
         HasOption(m.mss), MssOutcome(m, n, p, value), MssOutcome(r, DocumentedStep(r, c, p), p, value)
  PROVE  Keeps(c, n, r, p)
<1>1. Going(r) /\ r.nat = m.nat /\ r.mss = m.mss /\ r.logs = m.logs
  BY SimFields
<1>2. HasOption(MssOption(value))
  BY MssOptionIs
<1>3. CASE p.l4 # IPPROTO.TCP
  <2>1. /\ Becomes(n, "Break", m.nat, m.mss, m.logs)
        /\ Becomes(DocumentedStep(r, c, p), "Break", m.nat, m.mss, m.logs)
    BY <1>1, <1>3, ZenonT(30) DEF MssOutcome
  <2> QED
    BY <2>1, StatementAgrees
<1>4. CASE p.l4 = IPPROTO.TCP /\ m.mss = << >>
  <2>1. /\ Becomes(n, "Continue", m.nat, m.mss, m.logs)
        /\ Becomes(DocumentedStep(r, c, p), "Continue", m.nat, m.mss, m.logs)
    BY <1>1, <1>4, ZenonT(30) DEF MssOutcome
  <2> QED
    BY <2>1, StatementAgrees
<1>5. CASE p.l4 = IPPROTO.TCP /\ m.mss # << >>
  <2>1. /\ Becomes(n, "Continue", m.nat, MssOption(value), m.logs)
        /\ Becomes(DocumentedStep(r, c, p), "Continue", m.nat, MssOption(value), m.logs)
    BY <1>1, <1>5, Zenon DEF MssOutcome
  <2> QED
    BY <2>1, <1>2, StatementAgrees
<1> QED
  BY <1>3, <1>4, <1>5, ZenonT(30)

LEMMA SetMssCall ==
  ASSUME NEW mss \in Nat
  PROVE  CallAgrees(<<"set_mss", mss>>, set_mss(mss))
<1> DEFINE c == <<"set_mss", mss>>
<1>1. c[1] = "set_mss" /\ c[2] = mss /\ c[1] \in Statements
  BY DEF Statements
<1>2. IsSequence(set_mss(mss))
  BY ShortSequences, ZenonT(30) DEF set_mss
<1> HIDE DEF c
<1>3. ASSUME NEW p, NEW m, NEW r, Going(m), Sim(m, r), HasOption(m.mss)
      PROVE  Keeps(c, RunFrom(m, set_mss(mss), p, NoSets), r, p)
  <2>1. MssOutcome(m, RunFrom(m, set_mss(mss), p, NoSets), p, mss)
    BY <1>3, SetMssRun
  <2>2. Going(r)
    BY <1>3, SimFields
  <2>3. MssOutcome(r, DocumentedStep(r, c, p), p, mss)
    BY <1>1, <2>2, DocumentedMss, ZenonT(30)
  <2> QED
    BY <1>1, <1>3, <2>1, <2>3, MssAgrees, ZenonT(30)
<1>4. CallAgrees(c, set_mss(mss))
  BY <1>2, <1>3 DEF CallAgrees
<1> QED
  BY <1>4 DEF c

LEMMA ClampCall ==
  CallAgrees(<<"clamp_mss_to_pmtu">>, clamp_mss_to_pmtu)
<1> DEFINE c == <<"clamp_mss_to_pmtu">>
<1>1. c[1] = "clamp_mss_to_pmtu" /\ c[1] \in Statements
  BY DEF Statements
<1>2. IsSequence(clamp_mss_to_pmtu)
  BY ShortSequences DEF clamp_mss_to_pmtu
<1> HIDE DEF c
<1>3. ASSUME NEW p, NEW m, NEW r, IsPacket(p), Going(m), Sim(m, r), HasOption(m.mss)
      PROVE  Keeps(c, RunFrom(m, clamp_mss_to_pmtu, p, NoSets), r, p)
  <2>1. MssOutcome(m, RunFrom(m, clamp_mss_to_pmtu, p, NoSets), p, p.pathMss)
    BY <1>3, ClampRun, SMTT(30)
  <2>2. Going(r) /\ p.pathMss \in Nat
    BY <1>3, SimFields, SMTT(30) DEF IsPacket, HasNumbers, Word
  <2>3. MssOutcome(r, DocumentedStep(r, c, p), p, p.pathMss)
    BY <1>1, <2>2, DocumentedMss, ZenonT(30)
  <2> QED
    BY <1>1, <1>3, <2>1, <2>2, <2>3, MssAgrees, ZenonT(30)
<1>4. CallAgrees(c, clamp_mss_to_pmtu)
  BY <1>2, <1>3 DEF CallAgrees
<1> QED
  BY <1>4 DEF c

LEMMA DnatCall ==
  ASSUME NEW dst, IsAddress(dst), NEW port, port = NoPort \/ port \in Nat
  PROVE  CallAgrees(<<"dnat", dst, port>>, dnat(dst, port))
<1> DEFINE c == <<"dnat", dst, port>>
           nat == <<dst, IF port = NoPort THEN << >> ELSE BE16(port)>>
<1>1. c[1] = "dnat" /\ c[2] = dst /\ c[3] = port /\ c[1] \in Statements
  BY DEF Statements
<1>2. IsSequence(dnat(dst, port))
  BY ShortSequences, Zenon DEF dnat
<1> HIDE DEF c
<1>3. ASSUME NEW p, NEW m, NEW r, IsPacket(p), Going(m), Sim(m, r), HasOption(m.mss), ~Divergent(c, p.host)
      PROVE  Keeps(c, RunFrom(m, dnat(dst, port), p, NoSets), r, p)
  <2>1. IsV4(dst) /\ IsBytes(dst, 4)
    BY <1>1, <1>3, AddressBytes, ZenonT(30) DEF Divergent
  <2>2. Going(r) /\ r.nat = m.nat /\ r.mss = m.mss /\ r.logs = m.logs
    BY <1>3, SimFields
  <2>3. Len(dst) = Len(p.daddr) <=> p.nfproto = NFPROTO_IPV4
    <3>1. p.nfproto = Family(p.daddr)
      BY <1>3, PacketAddresses
    <3>2. NFPROTO_IPV4 # NFPROTO_IPV6
      BY SMTT(30) DEF NFPROTO_IPV4, NFPROTO_IPV6
    <3> QED
      BY <2>1, <3>1, <3>2, ZenonT(30) DEF Family, IsV4
  <2>4. CASE p.nfproto = NFPROTO_IPV4
    <3>1. Becomes(RunFrom(m, dnat(dst, port), p, NoSets), "Accept", nat, m.mss, m.logs)
      BY <1>3, <2>1, <2>4, DnatRun, ZenonT(30)
    <3>2. Becomes(DocumentedStep(r, c, p), "Accept", nat, m.mss, m.logs)
      BY <1>1, <2>2, <2>3, <2>4, DocumentedDnat, ZenonT(30)
    <3> HIDE DEF nat
    <3> QED
      BY <1>1, <1>3, <3>1, <3>2, StatementAgrees, ZenonT(30)
  <2>5. CASE p.nfproto # NFPROTO_IPV4
    <3>1. Becomes(RunFrom(m, dnat(dst, port), p, NoSets), "Continue", m.nat, m.mss, m.logs)
      BY <1>3, <2>1, <2>5, DnatRun, ZenonT(30)
    <3>2. Becomes(DocumentedStep(r, c, p), "Continue", m.nat, m.mss, m.logs)
      BY <1>1, <2>2, <2>3, <2>5, DocumentedDnat, ZenonT(30)
    <3> QED
      BY <1>1, <1>3, <3>1, <3>2, StatementAgrees, ZenonT(30)
  <2> QED
    BY <2>4, <2>5
<1>4. CallAgrees(c, dnat(dst, port))
  BY <1>2, <1>3, ZenonT(30) DEF CallAgrees
<1> QED
  BY <1>4 DEF c

-----------------------------------------------------------------------------
(* Any number of calls.                                                    *)

TcpTested(cs) == \E j \in 1..Len(cs) : TestsTcp(cs[j])

DivergesIn(cs, i, p) ==
  \/ Divergent(cs[i], p.host)
  \/ cs[i][1] = "syn" /\ \A j \in 1..(i - 1) : ~TestsTcp(cs[j])

Settled(cs, p) == \A i \in 1..Len(cs) : ~DivergesIn(cs, i, p)

(* The decision of the expressions is the documented one, and it is known  *)
(* what `syn` relies on.                                                   *)
DecidedAs(m, cs, p) ==
  /\ Sim(m, DocumentedOf(cs, p)) /\ HasOption(m.mss)
  /\ m.verdict = "Continue" /\ TcpTested(cs) => p.l4 = IPPROTO.TCP

Decided(cs, exprs, p) == DecidedAs(Evaluate(exprs, p, NoSets), cs, p)

(* What Append leaves as it was.                                           *)
LEMMA AppendedCalls ==
  ASSUME NEW cs, IsSequence(cs), NEW c
  PROVE  /\ IsSequence(Append(cs, c)) /\ Len(cs) \in Nat /\ Len(Append(cs, c)) = Len(cs) + 1
         /\ Append(cs, c)[Len(cs) + 1] = c /\ \A i \in 1..Len(cs) : Append(cs, c)[i] = cs[i]
         /\ \A p : DocumentedOf(Append(cs, c), p) = DocumentedStep(DocumentedOf(cs, p), c, p)
<1>1. PICK S : cs \in Seq(S)
  BY DEF IsSequence
<1> DEFINE T == S \cup {c}
<1>2. cs \in Seq(T) /\ c \in T
  BY <1>1
<1> HIDE DEF T
<1>3. Append(cs, c) \in Seq(T)
  BY <1>2
<1>4. /\ Len(cs) \in Nat /\ Len(Append(cs, c)) = Len(cs) + 1
      /\ Append(cs, c)[Len(cs) + 1] = c /\ \A i \in 1..Len(cs) : Append(cs, c)[i] = cs[i]
  BY <1>2
<1>5. \A p : DocumentedOf(Append(cs, c), p) = DocumentedStep(DocumentedOf(cs, p), c, p)
  BY <1>2, DocumentedAppend
<1>6. IsSequence(Append(cs, c))
  BY <1>3, ZenonT(30) DEF IsSequence
<1> QED
  BY <1>4, <1>5, <1>6, ZenonT(30)

LEMMA AppendedSettled ==
  ASSUME NEW cs, IsSequence(cs), NEW c, NEW p, Settled(Append(cs, c), p)
  PROVE  /\ Settled(cs, p) /\ ~Divergent(c, p.host) /\ (c[1] = "syn" => TcpTested(cs))
         /\ TcpTested(Append(cs, c)) <=> TcpTested(cs) \/ TestsTcp(c)
<1> DEFINE ds == Append(cs, c)
           n == Len(cs)
<1>1. /\ n \in Nat /\ Len(ds) = n + 1 /\ ds[n + 1] = c /\ \A i \in 1..n : ds[i] = cs[i]
  BY AppendedCalls
<1>2. Settled(ds, p)
  OBVIOUS
<1> HIDE DEF ds, n
<1>3. ASSUME NEW i \in 1..n PROVE ~DivergesIn(cs, i, p)
  <2>1. i \in 1..Len(ds) /\ ds[i] = cs[i] /\ \A j \in 1..(i - 1) : ds[j] = cs[j]
    BY <1>1
  <2>2. ~DivergesIn(ds, i, p)
    BY <1>2, <2>1 DEF Settled
  <2> QED
    BY <2>1, <2>2, ZenonT(30) DEF DivergesIn
<1>4. ~DivergesIn(ds, n + 1, p)
  BY <1>1, <1>2 DEF Settled
<1>5. (n + 1) - 1 = n
  BY <1>1
<1>6. ~Divergent(c, p.host) /\ (c[1] = "syn" => \E j \in 1..n : TestsTcp(ds[j]))
  BY <1>1, <1>4, <1>5, ZenonT(30) DEF DivergesIn
<1>7. c[1] = "syn" => TcpTested(cs)
  BY <1>1, <1>6, ZenonT(30) DEF TcpTested, n
<1>8. TcpTested(ds) <=> TcpTested(cs) \/ TestsTcp(c)
  <2>1. \A j \in 1..(n + 1) : j \in 1..n \/ j = n + 1
    BY <1>1
  <2>2. \A j \in 1..n : j \in 1..(n + 1)
    BY <1>1
  <2>3. n + 1 \in 1..(n + 1)
    BY <1>1
  <2> QED
    BY <1>1, <2>1, <2>2, <2>3, ZenonT(30) DEF TcpTested, n
<1>9. Settled(cs, p)
  BY <1>3 DEF Settled, n
<1> QED
  BY <1>6, <1>7, <1>8, <1>9, ZenonT(30) DEF ds

LEMMA OneMoreCall ==
  ASSUME NEW exprs, IsSequence(exprs), NEW cs, IsSequence(cs), NEW c, NEW more, CallAgrees(c, more),
         NEW p, IsPacket(p), Settled(Append(cs, c), p), Settled(cs, p) => Decided(cs, exprs, p)
  PROVE  Decided(Append(cs, c), exprs \o more, p)
<1> DEFINE m == Evaluate(exprs, p, NoSets)
           n == RunFrom(m, more, p, NoSets)
           r == DocumentedOf(cs, p)
           ds == Append(cs, c)
<1>1. IsSequence(more)
  BY DEF CallAgrees
<1>2. Evaluate(exprs \o more, p, NoSets) = n
  BY <1>1, SequenceConcat, SMTT(30) DEF Evaluate
<1>3. /\ Settled(cs, p) /\ ~Divergent(c, p.host) /\ (c[1] = "syn" => TcpTested(cs))
      /\ TcpTested(ds) <=> TcpTested(cs) \/ TestsTcp(c)
  BY AppendedSettled, SMTT(30)
<1>4. DocumentedOf(ds, p) = DocumentedStep(r, c, p)
  BY AppendedCalls
<1>5. DecidedAs(m, cs, p)
  BY <1>3 DEF Decided
<1> HIDE DEF m
<1>6. DecidedAs(n, ds, p)
  <2>1. CASE m.verdict = "Continue"
    <3>1. Going(m) /\ Sim(m, r) /\ HasOption(m.mss)
      BY <1>5, <2>1, ZenonT(30) DEF DecidedAs, Sim, Going
    <3>2. c[1] = "syn" => p.l4 = IPPROTO.TCP
      BY <1>3, <1>5, <2>1, SMTT(30) DEF DecidedAs
    <3>3. Keeps(c, n, r, p)
      BY <1>3, <3>1, <3>2, ZenonT(30) DEF CallAgrees
    <3>4. TcpTested(cs) => p.l4 = IPPROTO.TCP
      BY <1>5, <2>1 DEF DecidedAs
    <3> HIDE DEF n, r, ds
    <3> QED
      BY <1>3, <1>4, <3>3, <3>4, ZenonT(30) DEF Keeps, DecidedAs
  <2>2. CASE m.verdict # "Continue"
    <3>1. n = m
      BY <1>1, <2>2, RunStopped, ZenonT(30)
    <3>2. r.verdict # "Continue" /\ Sim(m, r) /\ HasOption(m.mss)
      BY <1>5, <2>2, DecisionFields, SMTT(30) DEF DecidedAs, Sim
    <3>3. DocumentedStep(r, c, p) = r
      BY <3>2, Zenon DEF DocumentedStep
    <3> HIDE DEF n, r, ds
    <3> QED
      BY <1>4, <2>2, <3>1, <3>2, <3>3, ZenonT(30) DEF DecidedAs
  <2> QED
    BY <2>1, <2>2, ZenonT(30)
<1> QED
  BY <1>2, <1>6, ZenonT(30) DEF Decided

(* The inductive invariant.                                                *)
DInv ==
  /\ IsSequence(rule) /\ IsSequence(calls)
  /\ \A p \in Packets : Settled(calls, p) => Decided(calls, rule, p)

LEMMA InitDInv == Init => DInv
<1> SUFFICES ASSUME Init PROVE DInv
  OBVIOUS
<1>1. rule = << >> /\ calls = << >>
  BY DEF Init
<1>2. IsSequence(<< >>)
  <2>1. << >> \in Seq({})
    OBVIOUS
  <2> QED
    BY <2>1, Zenon DEF IsSequence
<1>3. ASSUME NEW p \in Packets PROVE Decided(<< >>, << >>, p)
  <2>1. Evaluate(<< >>, p, NoSets) = Start(p) /\ DocumentedOf(<< >>, p) = Start(p)
    BY RunNone, DocumentedNone DEF Evaluate
  <2>2. Sim(Start(p), Start(p))
    BY StartGoes DEF Sim, Going
  <2>3. Start(p).mss = p.mss
    BY DEF Start
  <2>4. HasOption(p.mss)
    <3>1. HasMss(p)
      BY PacketsAssumption DEF IsPacket
    <3>2. CASE p.mss = << >>
      BY <3>2, Zenon DEF HasOption
    <3>3. CASE p.mss \in [1..4 -> Byte] /\ p.mss[1] = 2 /\ p.mss[2] = 4
      <4>1. p.mss = <<2, 4, p.mss[3], p.mss[4]>>
        BY <3>3
      <4> QED
        BY <4>1, Zenon DEF HasOption
    <3> QED
      BY <3>1, <3>2, <3>3, ZenonT(30) DEF HasMss
  <2>5. ~TcpTested(<< >>)
    BY DEF TcpTested
  <2> QED
    BY <2>1, <2>2, <2>3, <2>4, <2>5, ZenonT(30) DEF Decided, DecidedAs
<1> QED
  BY <1>1, <1>2, <1>3, ZenonT(30) DEF DInv

LEMMA AddDecided ==
  ASSUME DInv, NEW c, NEW exprs, CallAgrees(c, exprs), Add(c, exprs)
  PROVE  DInv'
<1>1. rule' = rule \o exprs /\ calls' = Append(calls, c)
  BY ZenonT(30) DEF Add
<1>2. IsSequence(rule) /\ IsSequence(calls) /\ IsSequence(exprs)
  BY DEF DInv, CallAgrees
<1>3. IsSequence(rule \o exprs) /\ IsSequence(Append(calls, c))
  BY <1>2, SequenceConcat, AppendedCalls, SMTT(30)
<1>4. ASSUME NEW p \in Packets, Settled(Append(calls, c), p)
      PROVE  Decided(Append(calls, c), rule \o exprs, p)
  <2>1. IsPacket(p)
    BY PacketsAssumption
  <2>2. Settled(calls, p) => Decided(calls, rule, p)
    BY DEF DInv
  <2> QED
    BY <1>2, <1>4, <2>1, <2>2, OneMoreCall, ZenonT(30)
<1>5. /\ IsSequence(rule') /\ IsSequence(calls')
      /\ \A p \in Packets : Settled(calls', p) => Decided(calls', rule', p)
  BY <1>1, <1>3, <1>4, ZenonT(30)
<1> QED
  BY <1>5, Zenon DEF DInv

LEMMA SameDecided ==
  ASSUME DInv, UNCHANGED <<rule, calls>>
  PROVE  DInv'
<1>1. rule' = rule /\ calls' = calls
  OBVIOUS
<1>2. /\ IsSequence(rule') /\ IsSequence(calls')
      /\ \A p \in Packets : Settled(calls', p) => Decided(calls', rule', p)
  BY <1>1, Zenon DEF DInv
<1> QED
  BY <1>2, Zenon DEF DInv

(* sport is a call that always diverges.                                   *)
LEMMA SportCall ==
  ASSUME NEW port \in Nat, NEW proto \in Protocols
  PROVE  CallAgrees(<<"sport", port, proto>>, sport(port, proto))
<1> DEFINE c == <<"sport", port, proto>>
<1>1. c[1] = "sport"
  OBVIOUS
<1> HIDE DEF c
<1>2. \A p : Divergent(c, p.host)
  BY <1>1 DEF Divergent
<1>3. IsSequence(sport(port, proto))
  BY DportSequence, ZenonT(30) DEF sport, dport
<1>4. CallAgrees(c, sport(port, proto))
  BY <1>2, <1>3, Zenon DEF CallAgrees
<1> QED
  BY <1>4 DEF c

(* What the methods are called with.                                       *)
LEMMA Arguments ==
  /\ \A ip \in Ips : IsAddress(ip)
  /\ \A net \in Nets : IsNetwork(net)
  /\ \A name \in Names : name \in Seq(Byte)
  /\ Ports \subseteq Word /\ Ports \subseteq Nat /\ Indexes \subseteq Nat /\ Sizes \subseteq Nat
  /\ \A port \in Ports \cup {NoPort} : port = NoPort \/ port \in Nat
<1>1. \A ip \in Ips : IsAddress(ip)
  BY ParametersAssumption, Zenon DEF IsAddress
<1>2. ASSUME NEW net \in Nets PROVE IsNetwork(net)
  <2>1. IsAddress(net.ip) /\ net.prefix \in 0..(8 * Len(net.ip))
    BY ParametersAssumption, ZenonT(30) DEF IsAddress
  <2>2. Len(net.ip) \in Nat
    BY <2>1, AddressBytes DEF IsBytes
  <2> DEFINE n == Len(net.ip)
  <2>3. n \in Nat /\ net.prefix \in 0..(8 * n)
    BY <2>1, <2>2
  <2> HIDE DEF n
  <2>4. net.prefix \in Nat
    BY <2>3
  <2> QED
    BY <2>1, <2>4 DEF IsNetwork
<1>3. Names \subseteq Seq(Byte) /\ Indexes \subseteq Nat /\ Sizes \subseteq Nat
  BY ParametersAssumption, Zenon
<1>4. Ports \subseteq Word
  BY ParametersAssumption, Zenon
<1>5. Word \subseteq Nat
  BY SMTT(30) DEF Word
<1> QED
  BY <1>1, <1>2, <1>3, <1>4, <1>5, Zenon

(* What a step does to the rule: nothing, or it appends what one call      *)
(* appends, and the lemmas on that call hold of it.                        *)
Moves ==
  \/ UNCHANGED <<rule, calls>>
  \/ \E c, exprs : Add(c, exprs) /\ CallAgrees(c, exprs)

LEMMA AddMoves ==
  ASSUME NEW c, NEW exprs, CallAgrees(c, exprs), Add(c, exprs)
  PROVE  Moves
BY Zenon DEF Moves

LEMMA TryMoves ==
  ASSUME NEW failed, NEW error, NEW c, NEW exprs, ~failed => CallAgrees(c, exprs),
         Try(failed, error, c, exprs)
  PROVE  Moves
<1>1. \/ ~failed /\ Add(c, exprs)
      \/ UNCHANGED <<rule, calls>>
  BY DEF Try
<1> QED
  BY <1>1, Zenon DEF Moves

LEMMA NextMoves == [Next]_vars => Moves
<1> SUFFICES ASSUME [Next]_vars PROVE Moves
  OBVIOUS
<1>0. CASE UNCHANGED vars
  BY <1>0 DEF vars, Moves
<1>1. ASSUME NEW chain \in Chains, New(chain) PROVE Moves
  BY <1>1 DEF New, Moves
<1>2. CASE Icmp
  BY <1>2, IcmpCall, AddMoves, ZenonT(30) DEF Icmp
<1>3. CASE Icmpv6
  BY <1>3, Icmpv6Call, AddMoves, ZenonT(30) DEF Icmpv6
<1>4. CASE Igmp
  BY <1>4, IgmpCall, AddMoves, ZenonT(30) DEF Igmp
<1>5. CASE Ip6in4
  BY <1>5, Ip6in4Call, AddMoves, ZenonT(30) DEF Ip6in4
<1>6. CASE Established
  BY <1>6, EstablishedCall, TryMoves, ZenonT(30) DEF Established
<1>7. ASSUME NEW proto \in Protocols, Protocol(proto) PROVE Moves
  BY <1>7, ProtocolCall, AddMoves, ZenonT(30) DEF Protocol
<1>8. ASSUME NEW port \in Ports, NEW proto \in Protocols, Sport(port, proto) PROVE Moves
  <2>1. CallAgrees(<<"sport", port, proto>>, sport(port, proto))
    BY SportCall, Arguments
  <2> QED
    BY <1>8, <2>1, AddMoves, ZenonT(30) DEF Sport
<1>9. ASSUME NEW port \in Ports, NEW proto \in Protocols, Dport(port, proto) PROVE Moves
  <2>1. CallAgrees(<<"dport", port, proto>>, dport(port, proto))
    BY DportCall, Arguments
  <2> QED
    BY <1>9, <2>1, AddMoves, ZenonT(30) DEF Dport
<1>10. ASSUME NEW index \in Indexes, IfaceId(index) PROVE Moves
  <2>1. CallAgrees(<<"iface_id", index>>, iface_id(index))
    BY IfaceIdCall, Arguments
  <2> QED
    BY <1>10, <2>1, AddMoves, ZenonT(30) DEF IfaceId
<1>11. ASSUME NEW index \in Indexes, OfaceId(index) PROVE Moves
  <2>1. CallAgrees(<<"oface_id", index>>, oface_id(index))
    BY OfaceIdCall, Arguments
  <2> QED
    BY <1>11, <2>1, AddMoves, ZenonT(30) DEF OfaceId
<1>12. ASSUME NEW name \in Names, Iface(name) PROVE Moves
  <2>1. ~InterfaceNameTooLong(name) => CallAgrees(<<"iface", name>>, iface(name))
    BY IfaceCall, Arguments
  <2> QED
    BY <1>12, <2>1, TryMoves, ZenonT(30) DEF Iface
<1>13. ASSUME NEW name \in Names, Oface(name) PROVE Moves
  <2>1. ~InterfaceNameTooLong(name) => CallAgrees(<<"oface", name>>, oface(name))
    BY OfaceCall, Arguments
  <2> QED
    BY <1>13, <2>1, TryMoves, ZenonT(30) DEF Oface
<1>14. ASSUME NEW ip \in Ips, Saddr(ip) \/ Daddr(ip) PROVE Moves
  <2>1. CallAgrees(<<"saddr", ip>>, saddr(ip)) /\ CallAgrees(<<"daddr", ip>>, daddr(ip))
    BY SaddrCall, DaddrCall, Arguments, SMTT(30)
  <2> QED
    BY <1>14, <2>1, AddMoves, ZenonT(30) DEF Saddr, Daddr
<1>15. ASSUME NEW net \in Nets, Snetwork(net) \/ Dnetwork(net) PROVE Moves
  <2>1. CallAgrees(<<"snetwork", net>>, snetwork(net)) /\ CallAgrees(<<"dnetwork", net>>, dnetwork(net))
    BY SnetworkCall, DnetworkCall, Arguments, SMTT(30)
  <2>2. CASE Snetwork(net)
    BY <2>1, <2>2, TryMoves, ZenonT(30) DEF Snetwork
  <2>3. CASE Dnetwork(net)
    BY <2>1, <2>3, TryMoves, ZenonT(30) DEF Dnetwork
  <2> QED
    BY <1>15, <2>2, <2>3
<1>16. CASE Accept
  BY <1>16, AcceptCall, AddMoves, ZenonT(30) DEF Accept
<1>17. CASE Drop
  BY <1>17, DropCall, AddMoves, ZenonT(30) DEF Drop
<1>18. CASE Masq
  BY <1>18, MasqueradeCall, AddMoves, ZenonT(30) DEF Masq
<1>19. ASSUME NEW dst \in Ips, NEW port \in Ports \cup {NoPort}, Dnat(dst, port) PROVE Moves
  <2>1. CallAgrees(<<"dnat", dst, port>>, dnat(dst, port))
    BY DnatCall, Arguments
  <2> QED
    BY <1>19, <2>1, AddMoves, ZenonT(30) DEF Dnat
<1>20. ASSUME NEW mss \in Sizes, SetMss(mss) PROVE Moves
  <2>1. CallAgrees(<<"set_mss", mss>>, set_mss(mss))
    BY SetMssCall, Arguments
  <2> QED
    BY <1>20, <2>1, AddMoves, ZenonT(30) DEF SetMss
<1>21. CASE ClampMssToPmtu
  BY <1>21, ClampCall, AddMoves, ZenonT(30) DEF ClampMssToPmtu
<1>22. CASE Syn
  BY <1>22, SynCall, TryMoves, ZenonT(30) DEF Syn
<1>23. ASSUME NEW prefix \in LogPrefixes, WithLog(prefix) PROVE Moves
  BY <1>23, LogCall, TryMoves, ZenonT(30) DEF WithLog
<1> QED
  BY <1>0, <1>1, <1>2, <1>3, <1>4, <1>5, <1>6, <1>7, <1>8, <1>9, <1>10, <1>11, <1>12, <1>13, <1>14, <1>15,
     <1>16, <1>17, <1>18, <1>19, <1>20, <1>21, <1>22, <1>23, ZenonT(30) DEF Next

LEMMA NextDInv == DInv /\ [Next]_vars => DInv'
<1> SUFFICES ASSUME DInv, [Next]_vars PROVE DInv'
  OBVIOUS
<1>1. Moves
  BY NextMoves
<1> QED
  BY <1>1, AddDecided, SameDecided, ZenonT(30) DEF Moves

LEMMA DInvMatches == DInv => MatchesDocumentation
<1> SUFFICES ASSUME DInv, NEW p \in Packets, \A i \in DOMAIN calls : ~Diverges(i, p)
             PROVE  Agrees(p)
  BY DEF MatchesDocumentation
<1>1. DOMAIN calls = 1..Len(calls)
  BY DEF DInv, IsSequence
<1>2. ASSUME NEW i \in 1..Len(calls) PROVE ~DivergesIn(calls, i, p)
  BY <1>1, <1>2, ZenonT(30) DEF Diverges, DivergesIn
<1>3. Decided(calls, rule, p)
  BY <1>2, Zenon DEF DInv, Settled
<1>4. Documented(p) = DocumentedOf(calls, p)
  BY DEF Documented, DocumentedOf
<1> QED
  BY <1>3, <1>4, ZenonT(30) DEF Decided, DecidedAs, Sim, Agrees

(* MatchesDocumentation for every packet, every argument and any number    *)
(* of calls: a rule built by the methods of src/rule_methods.rs decides    *)
(* about a packet as the doc comments of the methods say, unless one of    *)
(* the calls is listed under Diverges.                                     *)
THEOREM RuleMatchesDocumentation == Spec => []MatchesDocumentation
<1>1. Init => DInv
  BY InitDInv
<1>2. DInv /\ [Next]_vars => DInv'
  BY NextDInv
<1>3. DInv => MatchesDocumentation
  BY DInvMatches
<1> QED
  BY <1>1, <1>2, <1>3, PTL DEF Spec

=============================================================================
