--------------------------- MODULE ExamplesProofs ---------------------------
(***************************************************************************)
(* What the example programs leave in the kernel, for every set of packets *)
(* and any number of runs.                                                 *)
(***************************************************************************)
EXTENDS Examples, RuleMethodsProofs

-----------------------------------------------------------------------------
(* A batch, message after message.                                         *)

IsCommit(f, n, k, msgs) == f = [i \in 0..n |-> IF i = 0 THEN k ELSE Apply(f[i - 1], msgs[i])]

LEMMA CommitExists ==
  ASSUME NEW k, NEW msgs
  PROVE  \A n \in Nat : \E f : IsCommit(f, n, k, msgs)
<1> DEFINE S == {n \in Nat : \E f : IsCommit(f, n, k, msgs)}
<1>1. 0 \in S
  <2> DEFINE f == [i \in 0..0 |-> k]
  <2>1. IsCommit(f, 0, k, msgs)
    BY DEF IsCommit
  <2> QED
    BY <2>1
<1>2. ASSUME NEW n \in Nat, n \in S PROVE n + 1 \in S
  <2>1. PICK f : IsCommit(f, n, k, msgs)
    BY <1>2
  <2> DEFINE g == [i \in 0..(n + 1) |-> IF i = n + 1 THEN Apply(f[n], msgs[n + 1]) ELSE f[i]]
  <2>2. ASSUME NEW i \in 0..(n + 1) PROVE g[i] = IF i = 0 THEN k ELSE Apply(g[i - 1], msgs[i])
    <3>1. CASE i = n + 1
      <4>1. g[i] = Apply(f[n], msgs[n + 1]) /\ g[n] = f[n]
        BY <3>1
      <4> QED
        BY <4>1, <3>1
    <3>2. CASE i # n + 1
      <4>1. i \in 0..n /\ g[i] = f[i]
        BY <3>2
      <4>2. f[i] = IF i = 0 THEN k ELSE Apply(f[i - 1], msgs[i])
        BY <4>1, <2>1 DEF IsCommit
      <4>3. i # 0 => g[i - 1] = f[i - 1]
        BY <4>1
      <4> QED
        BY <4>1, <4>2, <4>3
    <3> QED
      BY <3>1, <3>2
  <2>3. IsCommit(g, n + 1, k, msgs)
    BY <2>2 DEF IsCommit
  <2> HIDE DEF g
  <2> QED
    BY <2>3
<1> HIDE DEF S
<1>3. Nat \subseteq S
  BY <1>1, <1>2, NaturalInduction
<1> QED
  BY <1>3 DEF S

(* The rulesets between the messages, one after the other.                 *)
Commits(f, k, msgs) == f[0] = k /\ \A i \in 1..Len(msgs) : f[i] = Apply(f[i - 1], msgs[i])

LEMMA CommitStates ==
  ASSUME NEW k, NEW msgs, Len(msgs) \in Nat
  PROVE  \E f : Commits(f, k, msgs) /\ Commit(k, msgs) = f[Len(msgs)]
<1>1. \E f : IsCommit(f, Len(msgs), k, msgs)
  BY CommitExists
<1> DEFINE after == CHOOSE f : f = [i \in 0..Len(msgs) |-> IF i = 0 THEN k ELSE Apply(f[i - 1], msgs[i])]
<1>2. IsCommit(after, Len(msgs), k, msgs)
  BY <1>1, SMTT(30) DEF IsCommit
<1>3. Commit(k, msgs) = after[Len(msgs)]
  BY DEF Commit
<1> HIDE DEF after
<1>4. Commits(after, k, msgs)
  BY <1>2 DEF IsCommit, Commits
<1> QED
  BY <1>3, <1>4

-----------------------------------------------------------------------------
(* A chain, rule after rule.                                               *)

NoRules == [verdict |-> "Continue", logs |-> << >>, rules |-> << >>]

IsRulesRun(f, n, rules, p) == f = [i \in 0..n |-> IF i = 0 THEN NoRules ELSE RunRule(f[i - 1], rules[i], p)]

LEMMA RulesRunExists ==
  ASSUME NEW rules, NEW p
  PROVE  \A n \in Nat : \E f : IsRulesRun(f, n, rules, p)
<1> DEFINE S == {n \in Nat : \E f : IsRulesRun(f, n, rules, p)}
<1>1. 0 \in S
  <2> DEFINE f == [i \in 0..0 |-> NoRules]
  <2>1. IsRulesRun(f, 0, rules, p)
    BY DEF IsRulesRun
  <2> QED
    BY <2>1
<1>2. ASSUME NEW n \in Nat, n \in S PROVE n + 1 \in S
  <2>1. PICK f : IsRulesRun(f, n, rules, p)
    BY <1>2
  <2> DEFINE g == [i \in 0..(n + 1) |-> IF i = n + 1 THEN RunRule(f[n], rules[n + 1], p) ELSE f[i]]
  <2>2. ASSUME NEW i \in 0..(n + 1) PROVE g[i] = IF i = 0 THEN NoRules ELSE RunRule(g[i - 1], rules[i], p)
    <3>1. CASE i = n + 1
      <4>1. g[i] = RunRule(f[n], rules[n + 1], p) /\ g[n] = f[n]
        BY <3>1
      <4> QED
        BY <4>1, <3>1
    <3>2. CASE i # n + 1
      <4>1. i \in 0..n /\ g[i] = f[i]
        BY <3>2
      <4>2. f[i] = IF i = 0 THEN NoRules ELSE RunRule(f[i - 1], rules[i], p)
        BY <4>1, <2>1 DEF IsRulesRun
      <4>3. i # 0 => g[i - 1] = f[i - 1]
        BY <4>1
      <4> QED
        BY <4>1, <4>2, <4>3
    <3> QED
      BY <3>1, <3>2
  <2>3. IsRulesRun(g, n + 1, rules, p)
    BY <2>2 DEF IsRulesRun
  <2> HIDE DEF g
  <2> QED
    BY <2>3
<1> HIDE DEF S
<1>3. Nat \subseteq S
  BY <1>1, <1>2, NaturalInduction
<1> QED
  BY <1>3 DEF S

(* The states between the rules of a chain.                                *)
LEMMA RulesStates ==
  ASSUME NEW rules, NEW p, Len(rules) \in Nat
  PROVE  \E f : /\ RunRules(rules, p) = f[Len(rules)] /\ f[0] = NoRules
                /\ \A i \in 1..Len(rules) : f[i] = RunRule(f[i - 1], rules[i], p)
<1>1. \E f : IsRulesRun(f, Len(rules), rules, p)
  BY RulesRunExists
<1> DEFINE state == CHOOSE f : f = [i \in 0..Len(rules) |->
                                      IF i = 0 THEN NoRules ELSE RunRule(f[i - 1], rules[i], p)]
<1>2. IsRulesRun(state, Len(rules), rules, p)
  BY <1>1, SMTT(30) DEF IsRulesRun
<1>3. RunRules(rules, p) = state[Len(rules)]
  BY DEF RunRules, NoRules
<1> HIDE DEF state
<1>4. state[0] = NoRules /\ \A i \in 1..Len(rules) : state[i] = RunRule(state[i - 1], rules[i], p)
  BY <1>2 DEF IsRulesRun
<1> QED
  BY <1>3, <1>4

-----------------------------------------------------------------------------
(* The rules of Firewall::start.                                           *)

Http(p) ==
  /\ p.l4 = IPPROTO.TCP /\ p.dport = 80
  /\ p.nfproto = NFPROTO_IPV4 /\ SubSeq(p.saddr, 1, 3) = <<192, 168, 1>>

LEMMA StartRulesAre ==
  /\ StartRules[1] = established \o accept /\ StartRules[2] = iface(lo) \o accept
  /\ StartRules[3] = dport(22, "TCP") \o accept \o <<Log(NoLogGroup, SshPrefix)>>
  /\ StartRules[4] = dport(80, "TCP") \o snetwork(LocalNet) \o accept
  /\ StartRules[5] = icmp \o accept /\ StartRules[6] = igmp \o drop
  /\ StartRules[7] = <<Log(NetfilterGroup, NoLogPrefix)>>
  /\ Len(StartRules) = 7 /\ DOMAIN StartRules = 1..7
<1> DEFINE a == established \o accept
           b == iface(lo) \o accept
           c == dport(22, "TCP") \o accept \o <<Log(NoLogGroup, SshPrefix)>>
           d == dport(80, "TCP") \o snetwork(LocalNet) \o accept
           e == icmp \o accept
           f == igmp \o drop
           g == <<Log(NetfilterGroup, NoLogPrefix)>>
<1>1. StartRules = <<a, b, c, d, e, f, g>>
  BY Zenon DEF StartRules
<1> HIDE DEF a, b, c, d, e, f, g
<1>2. /\ StartRules[1] = a /\ StartRules[2] = b /\ StartRules[3] = c /\ StartRules[4] = d
      /\ StartRules[5] = e /\ StartRules[6] = f /\ StartRules[7] = g
      /\ Len(StartRules) = 7 /\ DOMAIN StartRules = 1..7
  BY <1>1
<1> QED
  BY <1>2, Zenon DEF a, b, c, d, e, f, g

LEMMA EstablishedRule ==
  ASSUME NEW p \in Packets
  PROVE  Decides(StartRules[1], p, "Accept", (p.ct \div ESTABLISHED) % 2 = 1)
<1>1. IsPacket(p) /\ p.host = "little"
  BY PacketsAssumption, HostAssumption
<1>2. Going(Start(p))
  BY StartGoes
<1>3. Outcome(Start(p), RunFrom(Start(p), established, p, << >>), (p.ct \div ESTABLISHED) % 2 = 1)
  BY <1>1, <1>2, EstablishedOutcome
<1>4. IsSequence(established)
  BY ShortSequences DEF established
<1>5. Decides(established \o <<ImmediateVerdict("Accept")>>, p, "Accept", (p.ct \div ESTABLISHED) % 2 = 1)
  BY <1>3, <1>4, TestedVerdict, SMTT(30)
<1> QED
  BY <1>5, StartRulesAre, Zenon DEF accept

LEMMA LoopbackRule ==
  ASSUME NEW p \in Packets
  PROVE  Decides(StartRules[2], p, "Accept", p.iifname = lo)
<1>1. IsPacket(p) /\ IsInterfaceName(lo)
  BY PacketsAssumption, HostAssumption
<1>2. Going(Start(p))
  BY StartGoes
<1>3. Outcome(Start(p), RunFrom(Start(p), iface(lo), p, << >>), p.iifname = lo)
  BY <1>1, <1>2, IfaceOutcome
<1>4. IsSequence(iface(lo))
  BY ShortSequences DEF iface
<1>5. Decides(iface(lo) \o <<ImmediateVerdict("Accept")>>, p, "Accept", p.iifname = lo)
  BY <1>3, <1>4, TestedVerdict, SMTT(30)
<1> QED
  BY <1>5, StartRulesAre, Zenon DEF accept

LEMMA SshRule ==
  ASSUME NEW p \in Packets
  PROVE  Decides(StartRules[3], p, "Accept", Ssh(p))
<1> DEFINE test == dport(22, "TCP")
           log == <<Log(NoLogGroup, SshPrefix)>>
           matches == p.l4 = IPPROTO["TCP"] /\ p.dport = 22
<1>1. IsPacket(p) /\ Going(Start(p)) /\ 22 \in Nat /\ "TCP" \in Protocols
  BY PacketsAssumption, StartGoes DEF Protocols
<1>2. Outcome(Start(p), RunFrom(Start(p), test, p, << >>), matches) /\ IsSequence(test)
  BY <1>1, DportOutcome
<1>3. StartRules[3] = test \o <<ImmediateVerdict("Accept")>> \o log
  BY StartRulesAre, Zenon DEF accept
<1>4. matches <=> Ssh(p)
  BY DEF Ssh
<1>5. IsSequence(log) /\ IsSequence(<<ImmediateVerdict("Accept")>>)
  BY ShortSequences
<1> HIDE DEF test, log, matches
<1>6. Decides(test \o <<ImmediateVerdict("Accept")>>, p, "Accept", matches)
  BY <1>2, TestedVerdict, SMTT(30)
<1>7. IsSequence(test \o <<ImmediateVerdict("Accept")>>)
  BY <1>2, <1>5, SequenceConcat, Zenon
<1>8. Decides(test \o <<ImmediateVerdict("Accept")>> \o log, p, "Accept", matches)
  BY <1>5, <1>6, <1>7, BehindVerdict, SMTT(30)
<1> QED
  BY <1>3, <1>4, <1>8 DEF Decides

LEMMA HttpRule ==
  ASSUME NEW p \in Packets
  PROVE  Decides(StartRules[4], p, "Accept", Http(p))
<1> DEFINE test == dport(80, "TCP")
           from == snetwork(LocalNet)
           matches == p.l4 = IPPROTO["TCP"] /\ p.dport = 80
           local == p.nfproto = Family(LocalNet.ip) /\ SamePrefix(p.saddr, LocalNet)
<1>1. IsPacket(p) /\ Going(Start(p)) /\ 80 \in Nat /\ "TCP" \in Protocols
  BY PacketsAssumption, StartGoes DEF Protocols
<1>2. Outcome(Start(p), RunFrom(Start(p), test, p, << >>), matches) /\ IsSequence(test)
  BY <1>1, DportOutcome
<1>3. LocalNet.prefix = 24 /\ LocalNet.ip = <<192, 168, 1, 0>>
  BY DEF LocalNet
<1>4. LocalNet.ip \in [1..4 -> Byte] /\ LocalNet.ip[4] = 0 /\ SubSeq(LocalNet.ip, 1, 3) = <<192, 168, 1>>
  <2>1. PICK ip : ip = <<192, 168, 1, 0>>
    BY Zenon
  <2>2. ip \in [1..4 -> Byte] /\ ip[1] = 192 /\ ip[2] = 168 /\ ip[3] = 1 /\ ip[4] = 0
    BY <2>1 DEF Byte
  <2> QED
    BY <1>3, <2>1, <2>2, FirstThree
<1>5. /\ IsNetwork(LocalNet) /\ Family(LocalNet.ip) = NFPROTO_IPV4
      /\ \A ip \in [1..4 -> Byte] : SamePrefix(ip, LocalNet) <=> SubSeq(ip, 1, 3) = SubSeq(LocalNet.ip, 1, 3)
  BY <1>3, <1>4, SlashTwentyFour, Zenon
<1>6. p.nfproto = NFPROTO_IPV4 => p.saddr \in [1..4 -> Byte]
  BY <1>1 DEF IsPacket, HasAddresses, NFPROTO_IPV4, NFPROTO_IPV6
<1>7. local <=> p.nfproto = NFPROTO_IPV4 /\ SubSeq(p.saddr, 1, 3) = <<192, 168, 1>>
  BY <1>4, <1>5, <1>6, Zenon
<1>8. (matches /\ local) <=> Http(p)
  BY <1>7 DEF Http
<1>9. /\ IsSequence(from)
      /\ \A n : Going(n) => Outcome(n, RunFrom(n, from, p, << >>), local)
  BY <1>1, <1>5, NetworkOutcome, Zenon
<1>10. StartRules[4] = test \o from \o <<ImmediateVerdict("Accept")>>
  BY StartRulesAre, Zenon DEF accept
<1> HIDE DEF test, from, matches, local
<1>11. Outcome(Start(p), RunFrom(Start(p), test \o from, p, << >>), matches /\ local)
  BY <1>1, <1>2, <1>9, OutcomeConcat, SMTT(30)
<1>12. IsSequence(test \o from)
  BY <1>2, <1>9, SequenceConcat, Zenon
<1>13. Decides(test \o from \o <<ImmediateVerdict("Accept")>>, p, "Accept", matches /\ local)
  BY <1>11, <1>12, TestedVerdict, SMTT(30)
<1> QED
  BY <1>8, <1>10, <1>13 DEF Decides

LEMMA IcmpRules ==
  ASSUME NEW p \in Packets
  PROVE  /\ Decides(StartRules[5], p, "Accept", p.l4 = IPPROTO.ICMP)
         /\ Decides(StartRules[6], p, "Drop", p.l4 = IPPROTO.IGMP)
<1>1. Going(Start(p))
  BY StartGoes
<1>2. \A n : Outcome(Start(p), RunFrom(Start(p), l4proto(n), p, << >>), p.l4 = n) /\ IsSequence(l4proto(n))
  BY <1>1, L4protoOutcome, Zenon
<1>3. ASSUME NEW n, NEW kind PROVE Decides(l4proto(n) \o <<ImmediateVerdict(kind)>>, p, kind, p.l4 = n)
  <2>1. Outcome(Start(p), RunFrom(Start(p), l4proto(n), p, << >>), p.l4 = n) /\ IsSequence(l4proto(n))
    BY <1>2, Zenon
  <2> QED
    BY <2>1, TestedVerdict, SMTT(30)
<1>4. /\ StartRules[5] = l4proto(IPPROTO.ICMP) \o <<ImmediateVerdict("Accept")>>
      /\ StartRules[6] = l4proto(IPPROTO.IGMP) \o <<ImmediateVerdict("Drop")>>
  BY StartRulesAre DEF accept, drop, icmp, igmp
<1> QED
  BY <1>3, <1>4

(* The last rule logs, and has no verdict.                                 *)
LEMMA LogRule ==
  ASSUME NEW p
  PROVE  LET r == Evaluate(StartRules[7], p, << >>)
         IN r.verdict = "Continue" /\ r.logs = <<Log(NetfilterGroup, NoLogPrefix)>> /\ r.counted = 0
<1> DEFINE e == Log(NetfilterGroup, NoLogPrefix)
           n == Start(p)
<1>1. StartRules[7] = <<e>> /\ e.expr = "log"
  BY StartRulesAre DEF Log
<1> HIDE DEF e
<1>2. Evaluate(StartRules[7], p, << >>) = Step(n, e, p, << >>)
  BY <1>1, RunOne DEF Evaluate
<1>3. n.verdict = "Continue" /\ n.logs = << >> /\ n.counted = 0
  BY DEF Start
<1>4. n = [regs |-> n.regs, verdict |-> n.verdict, nat |-> n.nat, mss |-> n.mss, logs |-> n.logs,
           counted |-> n.counted]
  BY ZenonT(30) DEF Start
<1> HIDE DEF n
<1>5. Step(n, e, p, << >>) = [n EXCEPT !.logs = Append(@, e)]
  BY <1>1, <1>3, ZenonT(30) DEF Step
<1> DEFINE r == [n EXCEPT !.logs = Append(@, e)]
<1>6. r.verdict = "Continue" /\ r.logs = Append(<< >>, e) /\ r.counted = 0
  BY <1>3, <1>4
<1>7. Append(<< >>, e) = <<e>>
  OBVIOUS
<1> QED
  BY <1>2, <1>5, <1>6, <1>7, ZenonT(30) DEF e

-----------------------------------------------------------------------------
(* The rules of add-rules.rs.                                              *)

(* The counter and the verdict stand behind the test, so that the rule     *)
(* counts the packets that it accepts.                                     *)
LEMMA BlockRule ==
  ASSUME NEW p \in Packets
  PROVE  LET r == Evaluate(block_out_to_private_net_rule, p, << >>)
         IN /\ r.verdict = IF IsPrivate(p) THEN "Accept" ELSE "Break"
            /\ r.counted = IF IsPrivate(p) THEN 1 ELSE 0
            /\ r.logs = << >>
<1> DEFINE test == dnetwork(PrivateNet)
           end == <<Counter, ImmediateVerdict("Accept")>>
           matches == p.nfproto = Family(PrivateNet.ip) /\ SamePrefix(p.daddr, PrivateNet)
           n == RunFrom(Start(p), test, p, << >>)
           r == RunFrom(n, end, p, << >>)
<1>1. IsPacket(p) /\ Going(Start(p))
  BY PacketsAssumption, StartGoes
<1>2. PrivateNet.prefix = 24 /\ PrivateNet.ip = <<10, 1, 0, 0>>
  BY DEF PrivateNet
<1>3. PrivateNet.ip \in [1..4 -> Byte] /\ PrivateNet.ip[4] = 0 /\ SubSeq(PrivateNet.ip, 1, 3) = <<10, 1, 0>>
  <2>1. PICK ip : ip = <<10, 1, 0, 0>>
    BY Zenon
  <2>2. ip \in [1..4 -> Byte] /\ ip[1] = 10 /\ ip[2] = 1 /\ ip[3] = 0 /\ ip[4] = 0
    BY <2>1 DEF Byte
  <2> QED
    BY <1>2, <2>1, <2>2, FirstThree
<1>4. /\ IsNetwork(PrivateNet) /\ Family(PrivateNet.ip) = NFPROTO_IPV4 /\ IsV4(PrivateNet.ip)
      /\ network(PrivateNet) = PrivateNet.ip
      /\ \A ip \in [1..4 -> Byte] : SamePrefix(ip, PrivateNet) <=> SubSeq(ip, 1, 3) = SubSeq(PrivateNet.ip, 1, 3)
  BY <1>2, <1>3, SlashTwentyFour, Zenon
<1>5. p.nfproto = NFPROTO_IPV4 => p.daddr \in [1..4 -> Byte]
  BY <1>1 DEF IsPacket, HasAddresses, NFPROTO_IPV4, NFPROTO_IPV6
<1>6. matches <=> IsPrivate(p)
  BY <1>3, <1>4, <1>5, Zenon DEF IsPrivate
<1>7. Outcome(Start(p), n, matches) /\ IsSequence(test)
  BY <1>1, <1>4, NetworkOutcome, Zenon
<1>8. block_out_to_private_net_rule = test \o end
  <2> DEFINE a == Meta("NfProto")
             b == Cmp("Eq", <<NFPROTO_IPV4>>)
             c == Build("IPv4", "Daddr")
             d == Bitwise(mask(PrivateNet), Zeros(4))
             e == Cmp("Eq", PrivateNet.ip)
             f == Counter
             g == ImmediateVerdict("Accept")
  <2>1. block_out_to_private_net_rule = <<a, b, c, d, e, f, g>>
    BY Zenon DEF block_out_to_private_net_rule
  <2>2. test = <<a, b>> \o <<c, d, e>>
    BY <1>4, Zenon DEF dnetwork, match_network, nfproto, load_ip, no_xor
  <2>3. end = <<f, g>>
    BY Zenon
  <2> HIDE DEF a, b, c, d, e, f, g
  <2>4. ASSUME NEW s, s = <<a, b, c, d, e, f, g>> PROVE s = (<<a, b>> \o <<c, d, e>>) \o <<f, g>>
    BY <2>4
  <2> QED
    BY <2>1, <2>2, <2>3, <2>4, Zenon
<1>9. IsSequence(end)
  BY ShortSequences
<1>10. Evaluate(block_out_to_private_net_rule, p, << >>) = r
  BY <1>7, <1>8, <1>9, SequenceConcat DEF Evaluate
<1>11. /\ IsMachine(n) /\ n.logs = << >> /\ n.counted = 0
       /\ (matches => n.verdict = "Continue") /\ (~matches => n.verdict = "Break")
  BY <1>7 DEF Outcome, Same, Start
<1> HIDE DEF test, n, matches
<1>12. CASE matches
  <2> DEFINE k == [n EXCEPT !.counted = @ + 1]
  <2>1. n = [regs |-> n.regs, verdict |-> n.verdict, nat |-> n.nat, mss |-> n.mss, logs |-> n.logs,
             counted |-> n.counted]
    BY <1>11 DEF IsMachine
  <2>2. r = Step(Step(n, Counter, p, << >>), ImmediateVerdict("Accept"), p, << >>)
    BY RunTwo, SMTT(30)
  <2>3. Step(n, Counter, p, << >>) = k
    BY <1>11, <1>12, ZenonT(30) DEF Step, Counter
  <2>4. k = [regs |-> n.regs, verdict |-> "Continue", nat |-> n.nat, mss |-> n.mss, logs |-> << >>, counted |-> 1]
    BY <2>1, <1>11, <1>12, SMTT(30)
  <2> HIDE DEF k
  <2>5. Step(k, ImmediateVerdict("Accept"), p, << >>) = [k EXCEPT !.verdict = "Accept"]
    BY <2>4, ZenonT(30) DEF Step, ImmediateVerdict
  <2>6. r = [k EXCEPT !.verdict = "Accept"]
    BY <2>2, <2>3, <2>5, Zenon
  <2> HIDE DEF r
  <2>7. r.verdict = "Accept" /\ r.counted = 1 /\ r.logs = << >>
    BY <2>4, <2>6
  <2> QED
    BY <1>6, <1>10, <1>12, <2>7
<1>13. CASE ~matches
  <2>1. r = n
    BY <1>9, <1>11, <1>13, RunStopped, Zenon
  <2> QED
    BY <1>6, <1>10, <1>11, <1>13, <2>1
<1> QED
  BY <1>12, <1>13

(* A rule that only loads, compares and accepts.                           *)
Mild(e) ==
  \/ e.expr \in {"meta", "payload"} /\ e.dreg = "Reg1"
  \/ e.expr = "cmp"
  \/ e.expr = "immediate" /\ e.dreg = "Verdict" /\ e.verdict = "Accept"

Unmarked(m) ==
  IsMachine(m) /\ m.verdict \in {"Continue", "Break", "Accept"} /\ m.logs = << >> /\ m.counted = 0

LEMMA MildStep ==
  ASSUME NEW m, Unmarked(m), NEW e, Mild(e), NEW p, NEW sets
  PROVE  Unmarked(Step(m, e, p, sets))
<1>1. CASE m.verdict # "Continue"
  BY <1>1, ZenonT(30) DEF Step
<1>2. CASE m.verdict = "Continue"
  <2>1. Going(m) /\ "Reg1" \in Registers
    BY <1>2 DEF Unmarked, Going, Registers
  <2>2. \A bytes : Unmarked(Load(m, "Reg1", bytes))
    <3>1. \A bytes : Going(Load(m, "Reg1", bytes)) /\ Same(m, Load(m, "Reg1", bytes))
      BY <2>1, LoadGoes, Zenon
    <3> QED
      BY <3>1 DEF Unmarked, Going, Same
  <2>3. \A v \in {"Break", "Accept"} : Unmarked([m EXCEPT !.verdict = v])
    <3>1. m = [regs |-> m.regs, verdict |-> m.verdict, nat |-> m.nat, mss |-> m.mss, logs |-> m.logs,
               counted |-> m.counted] /\ m.regs = [r \in Registers |-> m.regs[r]]
      BY DEF Unmarked, IsMachine
    <3> QED
      BY <3>1 DEF Unmarked, IsMachine
  <2>4. Unmarked(Break(m))
    BY <2>3 DEF Break
  <2>5. CASE e.expr = "meta" /\ e.dreg = "Reg1"
    <3>1. Step(m, e, p, sets) = Load(m, "Reg1", MetaBytes(p, e.key))
      BY <1>2, <2>5, ZenonT(30) DEF Step
    <3> QED
      BY <2>2, <3>1, ZenonT(30)
  <2>6. CASE e.expr = "payload" /\ e.dreg = "Reg1"
    <3>1. Step(m, e, p, sets) = RunPayload(m, e, p)
      BY <1>2, <2>6, ZenonT(30) DEF Step
    <3>2. \/ RunPayload(m, e, p) = Break(m)
          \/ \E bytes : RunPayload(m, e, p) = Load(m, "Reg1", bytes)
      BY <2>6, Zenon DEF RunPayload
    <3> QED
      BY <2>2, <2>4, <3>1, <3>2, ZenonT(30)
  <2>7. CASE e.expr = "cmp"
    <3>1. Step(m, e, p, sets) = RunCmp(m, e)
      BY <1>2, <2>7, ZenonT(30) DEF Step
    <3>2. RunCmp(m, e) = Break(m) \/ RunCmp(m, e) = m
      BY Zenon DEF RunCmp
    <3> QED
      BY <2>4, <3>1, <3>2, ZenonT(30)
  <2>8. CASE e.expr = "immediate" /\ e.dreg = "Verdict" /\ e.verdict = "Accept"
    <3>1. Step(m, e, p, sets) = [m EXCEPT !.verdict = "Accept"]
      BY <1>2, <2>8, ZenonT(30) DEF Step
    <3> QED
      BY <2>3, <3>1, ZenonT(30)
  <2> QED
    BY <2>5, <2>6, <2>7, <2>8 DEF Mild
<1> QED
  BY <1>1, <1>2, ZenonT(30)

LEMMA MildRun ==
  ASSUME NEW exprs, Len(exprs) \in Nat, \A i \in 1..Len(exprs) : Mild(exprs[i]), NEW p
  PROVE  LET r == Evaluate(exprs, p, << >>)
         IN r.verdict \in {"Continue", "Break", "Accept"} /\ r.logs = << >> /\ r.counted = 0
<1>1. PICK f : /\ IsRun(f, Len(exprs), Start(p), exprs, p, << >>)
               /\ RunFrom(Start(p), exprs, p, << >>) = f[Len(exprs)]
  BY RunFromStates, ZenonT(30)
<1> DEFINE S == {i \in Nat : i <= Len(exprs) => Unmarked(f[i])}
<1>2. 0 \in S
  <2>1. f[0] = Start(p)
    BY <1>1 DEF IsRun
  <2>2. Unmarked(Start(p))
    BY StartGoes DEF Going, Unmarked, Start
  <2> QED
    BY <2>1, <2>2
<1>3. ASSUME NEW i \in Nat, i \in S PROVE i + 1 \in S
  <2> SUFFICES ASSUME i + 1 <= Len(exprs) PROVE Unmarked(f[i + 1])
    OBVIOUS
  <2>1. Unmarked(f[i]) /\ i + 1 \in 0..Len(exprs) /\ i + 1 # 0 /\ (i + 1) - 1 = i /\ Mild(exprs[i + 1])
    BY <1>3
  <2>2. f[i + 1] = Step(f[i], exprs[i + 1], p, << >>)
    BY <2>1, <1>1 DEF IsRun
  <2> QED
    BY <2>1, <2>2, MildStep
<1> HIDE DEF S
<1>4. Nat \subseteq S
  BY <1>2, <1>3, NaturalInduction
<1>5. Unmarked(f[Len(exprs)])
  BY <1>4 DEF S
<1> QED
  BY <1>1, <1>5 DEF Unmarked, Evaluate

LEMMA MildRules ==
  ASSUME NEW p
  PROVE  \A exprs \in {allow_loopback_in_rule, allow_router_solicitation} :
           LET r == Evaluate(exprs, p, << >>)
           IN r.verdict \in {"Continue", "Break", "Accept"} /\ r.logs = << >> /\ r.counted = 0
<1>1. /\ \A key : Mild(Meta(key)) /\ \A op, data : Mild(Cmp(op, data)) /\ Mild(ImmediateVerdict("Accept"))
      /\ \A header, field : Mild(Build(header, field))
  BY DEF Mild, Meta, Cmp, ImmediateVerdict, Build
<1>2. Len(allow_loopback_in_rule) = 3 /\ \A i \in 1..3 : Mild(allow_loopback_in_rule[i])
  <2> DEFINE a == Meta("Iif")
             b == Cmp("Eq", LE32(LoIndex))
             c == ImmediateVerdict("Accept")
  <2>1. allow_loopback_in_rule = <<a, b, c>> /\ Mild(a) /\ Mild(b) /\ Mild(c)
    BY <1>1, Zenon DEF allow_loopback_in_rule
  <2> HIDE DEF a, b, c
  <2> QED
    BY <2>1
<1>3. Len(allow_router_solicitation) = 9 /\ \A i \in 1..9 : Mild(allow_router_solicitation[i])
  <2> DEFINE a == Meta("NfProto")
             b == Cmp("Eq", <<NFPROTO_IPV6>>)
             c == Meta("L4Proto")
             d == Cmp("Eq", <<IPPROTO.ICMPV6>>)
             e == Build("ICMPv6", "Type")
             f == Cmp("Eq", <<133>>)
             g == Build("ICMPv6", "Code")
             h == Cmp("Eq", <<0>>)
             k == ImmediateVerdict("Accept")
  <2>1. allow_router_solicitation = <<a, b, c, d, e, f, g, h, k>>
    BY Zenon DEF allow_router_solicitation
  <2>2. Mild(a) /\ Mild(b) /\ Mild(c) /\ Mild(d) /\ Mild(e) /\ Mild(f) /\ Mild(g) /\ Mild(h) /\ Mild(k)
    BY <1>1, Zenon
  <2> HIDE DEF a, b, c, d, e, f, g, h, k
  <2> QED
    BY <2>1, <2>2
<1>4. ASSUME NEW exprs \in {allow_loopback_in_rule, allow_router_solicitation}
      PROVE  Len(exprs) \in Nat /\ \A i \in 1..Len(exprs) : Mild(exprs[i])
  BY <1>2, <1>3
<1> QED
  BY <1>4, MildRun, Zenon

-----------------------------------------------------------------------------
(* The messages on the ruleset.                                            *)

LEMMA RowExtended ==
  ASSUME NEW n \in Nat, NEW s, IsRow(s, n), NEW x
  PROVE  s \o <<x>> = [j \in 1..(n + 1) |-> IF j = n + 1 THEN x ELSE s[j]]
<1> DEFINE S == {s[i] : i \in 1..n} \cup {x}
<1>1. s \in [1..n -> S] /\ x \in S
  BY DEF IsRow
<1> HIDE DEF S
<1>2. s \in Seq(S) /\ Len(s) = n
  BY <1>1, SequencesAre, RowLen
<1>3. <<x>> \in Seq(S) /\ Len(<<x>>) = 1 /\ <<x>>[1] = x
  BY <1>1
<1> DEFINE c == s \o <<x>>
<1>4. /\ c \in Seq(S) /\ Len(c) = n + 1 /\ \A j \in 1..n : c[j] = s[j]
      /\ c[n + 1] = x
  BY <1>2, <1>3, ConcatIs
<1> HIDE DEF c
<1>5. c = [j \in 1..(n + 1) |-> c[j]]
  BY <1>4, SequenceLen
<1>6. c = [j \in 1..(n + 1) |-> IF j = n + 1 THEN x ELSE s[j]]
  BY <1>4, <1>5
<1> QED
  BY <1>6 DEF c

LEMMA RowAppended ==
  ASSUME NEW n \in Nat, NEW s, IsRow(s, n), NEW x
  PROVE  Append(s, x) = s \o <<x>>
<1> DEFINE S == {s[i] : i \in 1..n} \cup {x}
<1>1. s \in [1..n -> S] /\ x \in S
  BY DEF IsRow
<1> HIDE DEF S
<1>2. s \in Seq(S)
  BY <1>1, SequencesAre
<1> QED
  BY <1>1, <1>2, AppendConcat

IsRuleset(k) == k = [t \in DOMAIN k |-> k[t]]

WithTable(k, g, table) ==
  /\ IsRuleset(g) /\ DOMAIN g = DOMAIN k \cup {table}
  /\ \A t \in DOMAIN g : g[t] = IF t \in DOMAIN k THEN k[t] ELSE << >>

LEMMA TableAdded ==
  ASSUME NEW k, NEW table, NEW g, g = Apply(k, TableMsg("Add", table))
  PROVE  WithTable(k, g, table)
<1>1. g = AddTable(k, TableMsg("Add", table))
  BY DEF Apply, TableMsg
<1>2. TableMsg("Add", table).table = table
  BY DEF TableMsg
<1> QED
  BY <1>1, <1>2, ZenonT(30) DEF AddTable, IsRuleset, WithTable

WithoutTable(k, g, table) ==
  IsRuleset(g) /\ DOMAIN g = DOMAIN k \ {table} /\ \A t \in DOMAIN g : g[t] = k[t]

LEMMA TableDeleted ==
  ASSUME NEW k, NEW table, NEW g, g = Apply(k, TableMsg("Del", table))
  PROVE  WithoutTable(k, g, table)
<1>1. g = DelTable(k, TableMsg("Del", table))
  BY DEF Apply, TableMsg
<1>2. TableMsg("Del", table).table = table
  BY DEF TableMsg
<1> QED
  BY <1>1, <1>2 DEF DelTable, IsRuleset, WithoutTable

Chain(hook, policy, rules) == [hook |-> hook, policy |-> policy, rules |-> rules]

WithChain(k, g, table, chain, hook, policy) ==
  /\ IsRuleset(g) /\ DOMAIN g = DOMAIN k /\ DOMAIN g[table] = DOMAIN k[table] \cup {chain}
  /\ IsRuleset(g[table])
  /\ \A t \in DOMAIN k : t # table => g[t] = k[t]
  /\ g[table][chain] = Chain(hook, policy, IF chain \in DOMAIN k[table] THEN k[table][chain].rules ELSE << >>)
  /\ \A c \in DOMAIN k[table] : c # chain => g[table][c] = k[table][c]

LEMMA ChainAdded ==
  ASSUME NEW k, IsRuleset(k), NEW table \in DOMAIN k, NEW chain, NEW hook, NEW policy,
         NEW g, g = Apply(k, ChainMsg(table, chain, hook, policy))
  PROVE  WithChain(k, g, table, chain, hook, policy)
<1> DEFINE m == ChainMsg(table, chain, hook, policy)
           rules == IF chain \in DOMAIN k[table] THEN k[table][chain].rules ELSE << >>
           new == [c \in DOMAIN k[table] \cup {chain} |->
                     IF c = chain THEN [hook |-> hook, policy |-> policy, rules |-> rules] ELSE k[table][c]]
<1>1. m.obj = "chain" /\ m.table = table /\ m.chain = chain /\ m.hook = hook /\ m.policy = policy
  BY DEF ChainMsg
<1>2. g = AddChain(k, m)
  BY <1>1 DEF Apply
<1> HIDE DEF m
<1>3. g = [k EXCEPT ![table] = new]
  BY <1>1, <1>2, ZenonT(30) DEF AddChain
<1>4. new[chain] = Chain(hook, policy, rules) /\ DOMAIN new = DOMAIN k[table] \cup {chain} /\ IsRuleset(new)
  BY DEF Chain, IsRuleset
<1>5. \A c \in DOMAIN k[table] : c # chain => new[c] = k[table][c]
  OBVIOUS
<1> HIDE DEF new
<1>6. g = [t \in DOMAIN k |-> IF t = table THEN new ELSE k[t]]
  BY <1>3, Zenon DEF IsRuleset
<1>7. g[table] = new /\ DOMAIN g = DOMAIN k /\ IsRuleset(g) /\ \A t \in DOMAIN k : t # table => g[t] = k[t]
  BY <1>6 DEF IsRuleset
<1> QED
  BY <1>4, <1>5, <1>7 DEF WithChain

WithRules(k, g, table, chain, hook, policy, rules) ==
  /\ IsRuleset(g) /\ DOMAIN g = DOMAIN k /\ DOMAIN g[table] = DOMAIN k[table]
  /\ IsRuleset(g[table])
  /\ \A t \in DOMAIN k : t # table => g[t] = k[t]
  /\ g[table][chain] = Chain(hook, policy, rules)
  /\ \A c \in DOMAIN k[table] : c # chain => g[table][c] = k[table][c]

(* A rule goes behind those that are there (NLM_F_APPEND).                 *)
LEMMA RuleAdded ==
  ASSUME NEW k, IsRuleset(k), NEW table \in DOMAIN k, IsRuleset(k[table]), NEW chain \in DOMAIN k[table],
         NEW hook, NEW policy, NEW rules, k[table][chain] = Chain(hook, policy, rules),
         NEW exprs, NEW g, g = Apply(k, RuleMsg(table, chain, exprs))
  PROVE  WithRules(k, g, table, chain, hook, policy, rules \o <<[exprs |-> exprs, counter |-> 0]>>)
<1> DEFINE m == RuleMsg(table, chain, exprs)
           new == <<[exprs |-> exprs, counter |-> 0]>>
           old == k[table][chain]
           tab == [k[table] EXCEPT ![chain] = [old EXCEPT !.rules = rules \o new]]
<1>1. m.obj = "rule" /\ m.table = table /\ m.chain = chain /\ m.exprs = exprs /\ "NLM_F_APPEND" \in m.flags
  BY DEF RuleMsg, rule_get_add_flags
<1>2. g = AddRule(k, m)
  BY <1>1 DEF Apply
<1> HIDE DEF m
<1>3. old.rules = rules
  BY DEF Chain
<1>4. g = [k EXCEPT ![table] = tab]
  <2>1. g = [k EXCEPT ![table][chain].rules = @ \o new]
    BY <1>1, <1>2 DEF AddRule
  <2> HIDE DEF new
  <2> QED
    BY <1>3, <2>1
<1> HIDE DEF new
<1>5. [old EXCEPT !.rules = rules \o new] = Chain(hook, policy, rules \o new)
  <2>1. old = [hook |-> hook, policy |-> policy, rules |-> rules]
    BY DEF Chain
  <2> DEFINE all == rules \o new
  <2> HIDE DEF old, all
  <2>2. [old EXCEPT !.rules = all] = [hook |-> hook, policy |-> policy, rules |-> all]
    BY <2>1
  <2> QED
    BY <2>2 DEF Chain, all
<1>6. tab = [c \in DOMAIN k[table] |-> IF c = chain THEN Chain(hook, policy, rules \o new) ELSE k[table][c]]
  BY <1>5, ZenonT(30) DEF IsRuleset
<1> HIDE DEF tab, old
<1>7. g = [t \in DOMAIN k |-> IF t = table THEN tab ELSE k[t]]
  BY <1>4, ZenonT(30) DEF IsRuleset
<1>8. g[table] = tab /\ DOMAIN g = DOMAIN k /\ IsRuleset(g) /\ \A t \in DOMAIN k : t # table => g[t] = k[t]
  BY <1>7 DEF IsRuleset
<1>9. /\ DOMAIN tab = DOMAIN k[table] /\ IsRuleset(tab) /\ tab[chain] = Chain(hook, policy, rules \o new)
      /\ \A c \in DOMAIN k[table] : c # chain => tab[c] = k[table][c]
  BY <1>6 DEF IsRuleset
<1> QED
  BY <1>8, <1>9 DEF new, WithRules

-----------------------------------------------------------------------------
(* What the batches leave behind: the ruleset is known by how many rules   *)
(* each program has added and by the packets that were counted.            *)

(* The first n rules of the inbound chain, start after start.              *)
StartedRules(n) == [j \in 1..n |-> [exprs |-> StartRules[((j - 1) % 7) + 1], counter |-> 0]]

MainTable(tab, n) ==
  /\ IsRuleset(tab) /\ DOMAIN tab = {"in-chain", "out-chain", "forward-chain"}
  /\ tab["in-chain"] = Chain("In", "Drop", StartedRules(n))
  /\ tab["out-chain"] = Chain("Out", "Accept", << >>)
  /\ tab["forward-chain"] = Chain("Forward", "Accept", << >>)

(* The table of add-rules with o rules for outgoing packets, the first of  *)
(* which has counted `count` packets, and i for incoming ones.             *)
OutRule(j, count) ==
  [exprs |-> IF j % 2 = 1 THEN block_out_to_private_net_rule ELSE allow_router_solicitation,
   counter |-> IF j = 1 THEN count ELSE 0]

OutRules(o, count) == [j \in 1..o |-> OutRule(j, count)]

InRules(i) == [j \in 1..i |-> [exprs |-> allow_loopback_in_rule, counter |-> 0]]

ExampleTable(tab, o, i, count) ==
  /\ IsRuleset(tab) /\ DOMAIN tab = {"chain-for-outgoing-packets", "chain-for-incoming-packets"}
  /\ tab["chain-for-outgoing-packets"] = Chain("Out", "Accept", OutRules(o, count))
  /\ tab["chain-for-incoming-packets"] = Chain("In", "Accept", InRules(i))

LEMMA NoRows == StartedRules(0) = << >> /\ InRules(0) = << >> /\ \A count : OutRules(0, count) = << >>
BY DEF StartedRules, InRules, OutRules

LEMMA ChainRules ==
  ASSUME NEW hook, NEW policy, NEW rules
  PROVE  /\ Chain(hook, policy, rules).hook = hook /\ Chain(hook, policy, rules).policy = policy
         /\ Chain(hook, policy, rules).rules = rules
BY DEF Chain

(* The same tables but for one.                                            *)
OnlyChanges(k, g, table) ==
  /\ IsRuleset(g) /\ DOMAIN g = DOMAIN k \cup {table}
  /\ \A t \in DOMAIN k : t # table => g[t] = k[t]

LEMMA FirewallBuilt ==
  ASSUME NEW k, IsRuleset(k), NEW n \in Nat,
         "main-table" \in DOMAIN k => MainTable(k["main-table"], n), "main-table" \notin DOMAIN k => n = 0,
         NEW k1, k1 = Apply(k, TableMsg("Add", "main-table")),
         NEW k2, k2 = Apply(k1, ChainMsg("main-table", "in-chain", "In", "Drop")),
         NEW k3, k3 = Apply(k2, ChainMsg("main-table", "out-chain", "Out", "Accept")),
         NEW k4, k4 = Apply(k3, ChainMsg("main-table", "forward-chain", "Forward", "Accept"))
  PROVE  OnlyChanges(k, k4, "main-table") /\ MainTable(k4["main-table"], n)
<1> DEFINE m == "main-table"
           a == "in-chain"
           b == "out-chain"
           c == "forward-chain"
           D == DOMAIN k1[m]
<1>1. /\ IsRuleset(k1) /\ DOMAIN k1 = DOMAIN k \cup {m}
      /\ \A t \in DOMAIN k1 : k1[t] = IF t \in DOMAIN k THEN k[t] ELSE << >>
  <2>1. WithTable(k, k1, m)
    BY TableAdded, Zenon
  <2> QED
    BY <2>1 DEF WithTable
<1>8. m \in DOMAIN k1
  BY <1>1
<1>2. /\ IsRuleset(k2) /\ DOMAIN k2 = DOMAIN k1 /\ DOMAIN k2[m] = D \cup {a}
      /\ \A t \in DOMAIN k1 : t # m => k2[t] = k1[t]
      /\ k2[m][a] = Chain("In", "Drop", IF a \in D THEN k1[m][a].rules ELSE << >>)
      /\ \A d \in D : d # a => k2[m][d] = k1[m][d]
  BY <1>1, <1>8, ChainAdded, SMTT(30) DEF WithChain
<1>3. /\ IsRuleset(k3) /\ DOMAIN k3 = DOMAIN k1 /\ DOMAIN k3[m] = D \cup {a, b}
      /\ \A t \in DOMAIN k1 : t # m => k3[t] = k1[t]
      /\ k3[m][a] = k2[m][a]
      /\ k3[m][b] = Chain("Out", "Accept", IF b \in D THEN k1[m][b].rules ELSE << >>)
      /\ \A d \in D : d # a /\ d # b => k3[m][d] = k1[m][d]
  <2>1. /\ IsRuleset(k3) /\ DOMAIN k3 = DOMAIN k2 /\ DOMAIN k3[m] = DOMAIN k2[m] \cup {b}
        /\ \A t \in DOMAIN k2 : t # m => k3[t] = k2[t]
        /\ k3[m][b] = Chain("Out", "Accept", IF b \in DOMAIN k2[m] THEN k2[m][b].rules ELSE << >>)
        /\ \A d \in DOMAIN k2[m] : d # b => k3[m][d] = k2[m][d]
    BY <1>2, <1>8, ChainAdded, SMTT(30) DEF WithChain
  <2> HIDE DEF D
  <2> QED
    BY <1>2, <2>1, ZenonT(30)
<1>4. /\ IsRuleset(k4) /\ DOMAIN k4 = DOMAIN k1 /\ DOMAIN k4[m] = D \cup {a, b, c} /\ IsRuleset(k4[m])
      /\ \A t \in DOMAIN k1 : t # m => k4[t] = k1[t]
      /\ k4[m][a] = k3[m][a] /\ k4[m][b] = k3[m][b]
      /\ k4[m][c] = Chain("Forward", "Accept", IF c \in D THEN k1[m][c].rules ELSE << >>)
  <2>1. /\ IsRuleset(k4) /\ DOMAIN k4 = DOMAIN k3 /\ DOMAIN k4[m] = DOMAIN k3[m] \cup {c} /\ IsRuleset(k4[m])
        /\ \A t \in DOMAIN k3 : t # m => k4[t] = k3[t]
        /\ k4[m][c] = Chain("Forward", "Accept", IF c \in DOMAIN k3[m] THEN k3[m][c].rules ELSE << >>)
        /\ \A d \in DOMAIN k3[m] : d # c => k4[m][d] = k3[m][d]
    BY <1>3, <1>8, ChainAdded, SMTT(30) DEF WithChain
  <2> HIDE DEF D
  <2> QED
    BY <1>3, <2>1, SMTT(30)
<1>5. OnlyChanges(k, k4, m)
  BY <1>1, <1>4 DEF OnlyChanges
<1>6. CASE m \in DOMAIN k
  <2>1. MainTable(k1[m], n)
    BY <1>1, <1>6, ZenonT(30)
  <2>2. /\ D = {a, b, c} /\ k1[m][a] = Chain("In", "Drop", StartedRules(n))
        /\ k1[m][b] = Chain("Out", "Accept", << >>) /\ k1[m][c] = Chain("Forward", "Accept", << >>)
    BY <2>1 DEF MainTable
  <2>3. k1[m][a].rules = StartedRules(n) /\ k1[m][b].rules = << >> /\ k1[m][c].rules = << >>
    BY <2>2, ChainRules, SMTT(30)
  <2> QED
    BY <1>2, <1>3, <1>4, <1>5, <2>2, <2>3, ZenonT(30) DEF MainTable
<1>7. CASE m \notin DOMAIN k
  <2>1. D = {} /\ n = 0
    BY <1>1, <1>7, SMTT(30)
  <2> QED
    BY <1>2, <1>3, <1>4, <1>5, <2>1, NoRows, ZenonT(30) DEF MainTable
<1> QED
  BY <1>6, <1>7

LEMMA StartRuleAdded ==
  ASSUME NEW k, IsRuleset(k), "main-table" \in DOMAIN k, NEW n \in Nat, MainTable(k["main-table"], n),
         NEW g, g = Apply(k, RuleMsg("main-table", "in-chain", StartRules[(n % 7) + 1]))
  PROVE  OnlyChanges(k, g, "main-table") /\ MainTable(g["main-table"], n + 1)
<1> DEFINE m == "main-table"
           a == "in-chain"
           exprs == StartRules[(n % 7) + 1]
           tab == k[m]
           new == StartedRules(n) \o <<[exprs |-> exprs, counter |-> 0]>>
<1>1. /\ IsRuleset(tab) /\ DOMAIN tab = {a, "out-chain", "forward-chain"}
      /\ tab[a] = Chain("In", "Drop", StartedRules(n))
      /\ tab["out-chain"] = Chain("Out", "Accept", << >>)
      /\ tab["forward-chain"] = Chain("Forward", "Accept", << >>)
  BY DEF MainTable
<1>2. new = StartedRules(n + 1)
  <2> DEFINE s == StartedRules(n)
             x == [exprs |-> exprs, counter |-> 0]
  <2>1. IsRow(s, n)
    BY DEF IsRow, StartedRules
  <2>2. \A j \in 1..n : s[j] = [exprs |-> StartRules[((j - 1) % 7) + 1], counter |-> 0]
    BY DEF StartedRules
  <2> HIDE DEF s
  <2>3. s \o <<x>> = [j \in 1..(n + 1) |-> IF j = n + 1 THEN x ELSE s[j]]
    BY <2>1, RowExtended
  <2>4. (n + 1) - 1 = n
    OBVIOUS
  <2>5. \A j \in 1..(n + 1) : (IF j = n + 1 THEN x ELSE s[j]) = [exprs |-> StartRules[((j - 1) % 7) + 1], counter |-> 0]
    BY <2>2, <2>4, SMTT(30)
  <2> HIDE DEF x
  <2> QED
    BY <2>3, <2>5, Zenon DEF StartedRules, s, x
<1> HIDE DEF exprs, new
<1>3. /\ IsRuleset(g) /\ DOMAIN g = DOMAIN k /\ DOMAIN g[m] = DOMAIN tab /\ IsRuleset(g[m])
      /\ \A t \in DOMAIN k : t # m => g[t] = k[t]
      /\ g[m][a] = Chain("In", "Drop", new)
      /\ \A c \in DOMAIN tab : c # a => g[m][c] = tab[c]
  BY <1>1, RuleAdded DEF exprs, new, WithRules
<1> HIDE DEF tab
<1> QED
  BY <1>1, <1>2, <1>3, Zenon DEF OnlyChanges, MainTable

(* Firewall::new puts the table and its chains in front of what start and  *)
(* stop add.                                                               *)
LEMMA FirewallMessages ==
  /\ FirewallBatch[1] = TableMsg("Add", "main-table")
  /\ FirewallBatch[2] = ChainMsg("main-table", "in-chain", "In", "Drop")
  /\ FirewallBatch[3] = ChainMsg("main-table", "out-chain", "Out", "Accept")
  /\ FirewallBatch[4] = ChainMsg("main-table", "forward-chain", "Forward", "Accept")
  /\ IsRow(FirewallBatch, 4)
<1> DEFINE a == TableMsg("Add", "main-table")
           b == ChainMsg("main-table", "in-chain", "In", "Drop")
           c == ChainMsg("main-table", "out-chain", "Out", "Accept")
           d == ChainMsg("main-table", "forward-chain", "Forward", "Accept")
<1>1. FirewallBatch = <<a, b, c, d>>
  BY Zenon DEF FirewallBatch
<1> HIDE DEF a, b, c, d
<1>2. FirewallBatch[1] = a /\ FirewallBatch[2] = b /\ FirewallBatch[3] = c /\ FirewallBatch[4] = d
  BY <1>1
<1>3. IsRow(FirewallBatch, 4)
  BY <1>1 DEF IsRow
<1> QED
  BY <1>2, <1>3, Zenon DEF a, b, c, d

(* The n elements of a and then the m elements of b.                       *)
Joined(all, a, n, b, m) ==
  /\ n \in Nat /\ m \in Nat /\ Len(all) = n + m
  /\ \A i \in 1..n : all[i] = a[i]
  /\ \A i \in 1..m : all[n + i] = b[i]

LEMMA RowsConcat ==
  ASSUME NEW a, NEW n, IsRow(a, n), NEW b, NEW m, IsRow(b, m)
  PROVE  Joined(a \o b, a, n, b, m)
<1> DEFINE S == {a[i] : i \in 1..n} \cup {b[i] : i \in 1..m}
<1>1. n \in Nat /\ m \in Nat /\ a \in [1..n -> S] /\ b \in [1..m -> S]
  BY DEF IsRow
<1> HIDE DEF S
<1>5. a \in Seq(S) /\ b \in Seq(S)
  BY <1>1, SequencesAre
<1>2. Len(a) = n /\ Len(b) = m
  BY RowLen
<1> DEFINE c == a \o b
<1>3. /\ Len(c) = Len(a) + Len(b)
      /\ \A i \in 1..Len(a) : c[i] = a[i]
      /\ \A i \in 1..Len(b) : c[Len(a) + i] = b[i]
  BY <1>5, ConcatIs, SequenceLen
<1> HIDE DEF c
<1>4. Joined(c, a, n, b, m)
  BY <1>1, <1>2, <1>3, SMTT(30) DEF Joined
<1> QED
  BY <1>4 DEF c

(* The ruleset behind the part of the batch that Firewall::new builds.     *)
LEMMA FirewallPart ==
  ASSUME NEW k, IsRuleset(k), NEW n \in Nat,
         "main-table" \in DOMAIN k => MainTable(k["main-table"], n), "main-table" \notin DOMAIN k => n = 0,
         NEW all, NEW more, NEW m, Joined(all, FirewallBatch, 4, more, m), NEW f, Commits(f, k, all)
  PROVE  /\ OnlyChanges(k, f[4], "main-table") /\ MainTable(f[4]["main-table"], n)
         /\ \A i \in 1..m : f[4 + i] = Apply(f[4 + (i - 1)], more[i])
<1>1. m \in Nat
  BY DEF Joined
<1>2. /\ \A i \in 1..4 : all[i] = FirewallBatch[i]
      /\ \A i \in 1..m : all[4 + i] = more[i]
      /\ f[0] = k /\ \A i \in 1..(4 + m) : f[i] = Apply(f[i - 1], all[i])
  BY DEF Joined, Commits
<1>3. /\ f[1] = Apply(f[0], FirewallBatch[1]) /\ f[2] = Apply(f[1], FirewallBatch[2])
      /\ f[3] = Apply(f[2], FirewallBatch[3]) /\ f[4] = Apply(f[3], FirewallBatch[4])
  <2>1. \A i \in 1..4 : f[i] = Apply(f[i - 1], FirewallBatch[i])
    BY <1>1, <1>2
  <2>2. 1 - 1 = 0 /\ 2 - 1 = 1 /\ 3 - 1 = 2 /\ 4 - 1 = 3
    OBVIOUS
  <2>3. 1 \in 1..4 /\ 2 \in 1..4 /\ 3 \in 1..4 /\ 4 \in 1..4
    OBVIOUS
  <2> QED
    BY <2>1, <2>2, <2>3, SMTT(30)
<1>4. OnlyChanges(k, f[4], "main-table") /\ MainTable(f[4]["main-table"], n)
  <2>1. /\ f[1] = Apply(k, TableMsg("Add", "main-table"))
        /\ f[2] = Apply(f[1], ChainMsg("main-table", "in-chain", "In", "Drop"))
        /\ f[3] = Apply(f[2], ChainMsg("main-table", "out-chain", "Out", "Accept"))
        /\ f[4] = Apply(f[3], ChainMsg("main-table", "forward-chain", "Forward", "Accept"))
    BY <1>2, <1>3, FirewallMessages, ZenonT(30)
  <2> QED
    BY <2>1, FirewallBuilt, ZenonT(30)
<1>5. ASSUME NEW i \in 1..m PROVE f[4 + i] = Apply(f[4 + (i - 1)], more[i])
  <2>1. 4 + i \in 1..(4 + m) /\ (4 + i) - 1 = 4 + (i - 1)
    BY <1>1
  <2> QED
    BY <1>2, <2>1
<1> QED
  BY <1>4, <1>5

(* A start puts the seven rules behind those of the starts before.         *)
LEMMA StartCommitted ==
  ASSUME NEW k, IsRuleset(k), NEW n \in Nat, n % 7 = 0,
         "main-table" \in DOMAIN k => MainTable(k["main-table"], n), "main-table" \notin DOMAIN k => n = 0
  PROVE  LET g == Commit(k, StartBatch)
         IN OnlyChanges(k, g, "main-table") /\ MainTable(g["main-table"], n + 7)
<1> DEFINE main == "main-table"
           more == [i \in DOMAIN StartRules |-> RuleMsg("main-table", "in-chain", StartRules[i])]
<1>1. IsRow(more, 7) /\ StartBatch = FirewallBatch \o more
  BY StartRulesAre DEF IsRow, StartBatch
<1>2. \A i \in 1..7 : more[i] = RuleMsg("main-table", "in-chain", StartRules[i])
  BY StartRulesAre
<1> HIDE DEF more
<1>3. Joined(StartBatch, FirewallBatch, 4, more, 7) /\ Len(StartBatch) = 4 + 7
  <2>1. Joined(StartBatch, FirewallBatch, 4, more, 7)
    BY <1>1, FirewallMessages, RowsConcat, Zenon
  <2> QED
    BY <2>1 DEF Joined
<1>4. PICK f : Commits(f, k, StartBatch) /\ Commit(k, StartBatch) = f[4 + 7]
  <2>1. Len(StartBatch) \in Nat
    BY <1>3
  <2> QED
    BY <1>3, <2>1, CommitStates, ZenonT(30)
<1>5. /\ OnlyChanges(k, f[4], main) /\ MainTable(f[4][main], n)
      /\ \A i \in 1..7 : f[4 + i] = Apply(f[4 + (i - 1)], more[i])
  BY <1>3, <1>4, FirewallPart
<1> DEFINE S == {i \in Nat : i <= 7 => OnlyChanges(k, f[4 + i], main) /\ MainTable(f[4 + i][main], n + i)}
<1>6. 0 \in S
  BY <1>5
<1>7. ASSUME NEW i \in Nat, i \in S PROVE i + 1 \in S
  <2> SUFFICES ASSUME i + 1 <= 7
               PROVE  OnlyChanges(k, f[4 + (i + 1)], main) /\ MainTable(f[4 + (i + 1)][main], n + (i + 1))
    OBVIOUS
  <2> DEFINE a == f[4 + i]
             g == f[4 + (i + 1)]
  <2>1. OnlyChanges(k, a, main) /\ MainTable(a[main], n + i)
    BY <1>7
  <2>2. g = Apply(a, RuleMsg("main-table", "in-chain", StartRules[i + 1]))
    BY <1>2, <1>5
  <2>3. ((n + i) % 7) + 1 = i + 1 /\ n + i \in Nat /\ (n + i) + 1 = n + (i + 1)
    OBVIOUS
  <2>4. IsRuleset(a) /\ main \in DOMAIN a /\ DOMAIN a = DOMAIN k \cup {main}
    BY <2>1 DEF OnlyChanges
  <2> HIDE DEF a, g
  <2>5. OnlyChanges(a, g, main) /\ MainTable(g[main], (n + i) + 1)
    BY <2>1, <2>2, <2>3, <2>4, StartRuleAdded, ZenonT(30)
  <2>6. OnlyChanges(k, g, main)
    BY <2>1, <2>4, <2>5 DEF OnlyChanges
  <2> QED
    BY <2>3, <2>5, <2>6, SMTT(30) DEF g
<1> HIDE DEF S
<1>8. 7 \in S
  BY <1>6, <1>7, NaturalInduction
<1> QED
  BY <1>4, <1>8 DEF S

(* A stop takes the table away and nothing else.                           *)
LEMMA StopCommitted ==
  ASSUME NEW k, IsRuleset(k), NEW n \in Nat,
         "main-table" \in DOMAIN k => MainTable(k["main-table"], n), "main-table" \notin DOMAIN k => n = 0
  PROVE  WithoutTable(k, Commit(k, StopBatch), "main-table")
<1> DEFINE main == "main-table"
           a == TableMsg("Add", "main-table")
           d == TableMsg("Del", "main-table")
           more == <<a, d>>
<1>1. StopBatch = FirewallBatch \o more
  BY DEF StopBatch
<1> HIDE DEF a, d
<1>2. IsRow(more, 2) /\ more[1] = a /\ more[2] = d
  BY DEF IsRow
<1> HIDE DEF more
<1>3. Joined(StopBatch, FirewallBatch, 4, more, 2) /\ Len(StopBatch) = 4 + 2
  <2>1. Joined(StopBatch, FirewallBatch, 4, more, 2)
    BY <1>1, <1>2, FirewallMessages, RowsConcat, ZenonT(30)
  <2> QED
    BY <2>1 DEF Joined
<1>4. PICK f : Commits(f, k, StopBatch) /\ Commit(k, StopBatch) = f[4 + 2]
  <2>1. Len(StopBatch) \in Nat
    BY <1>3
  <2> QED
    BY <1>3, <2>1, CommitStates, ZenonT(30)
<1>5. /\ OnlyChanges(k, f[4], main)
      /\ \A i \in 1..2 : f[4 + i] = Apply(f[4 + (i - 1)], more[i])
  BY <1>3, <1>4, FirewallPart
<1>6. f[5] = Apply(f[4], a) /\ f[6] = Apply(f[5], d)
  BY <1>2, <1>5
<1>7. WithTable(f[4], f[5], main) /\ WithoutTable(f[5], f[6], main)
  BY <1>6, TableAdded, TableDeleted, ZenonT(30) DEF a, d
<1>8. WithoutTable(k, f[6], main)
  BY <1>5, <1>7 DEF OnlyChanges, WithTable, WithoutTable
<1> QED
  BY <1>4, <1>8

(* add-rules adds one rule for incoming and two for outgoing packets; the  *)
(* first of all of them keeps its counter.                                 *)
LEMMA ExampleBuilt ==
  ASSUME NEW k, IsRuleset(k), NEW o \in Nat, NEW i \in Nat, NEW count,
         "example-table" \in DOMAIN k => ExampleTable(k["example-table"], o, i, count),
         "example-table" \notin DOMAIN k => o = 0 /\ i = 0,
         NEW k1, k1 = Apply(k, TableMsg("Add", "example-table")),
         NEW k2, k2 = Apply(k1, ChainMsg("example-table", "chain-for-outgoing-packets", "Out", "Accept")),
         NEW k3, k3 = Apply(k2, ChainMsg("example-table", "chain-for-incoming-packets", "In", "Accept"))
  PROVE  OnlyChanges(k, k3, "example-table") /\ ExampleTable(k3["example-table"], o, i, count)
<1> DEFINE m == "example-table"
           a == "chain-for-outgoing-packets"
           b == "chain-for-incoming-packets"
           D == DOMAIN k1[m]
<1>1. /\ IsRuleset(k1) /\ DOMAIN k1 = DOMAIN k \cup {m}
      /\ \A t \in DOMAIN k1 : k1[t] = IF t \in DOMAIN k THEN k[t] ELSE << >>
  <2>1. WithTable(k, k1, m)
    BY TableAdded, Zenon
  <2> QED
    BY <2>1 DEF WithTable
<1>8. m \in DOMAIN k1
  BY <1>1, ZenonT(30)
<1>2. /\ IsRuleset(k2) /\ DOMAIN k2 = DOMAIN k1 /\ DOMAIN k2[m] = D \cup {a}
      /\ \A t \in DOMAIN k1 : t # m => k2[t] = k1[t]
      /\ k2[m][a] = Chain("Out", "Accept", IF a \in D THEN k1[m][a].rules ELSE << >>)
      /\ \A d \in D : d # a => k2[m][d] = k1[m][d]
  BY <1>1, <1>8, ChainAdded, SMTT(30) DEF WithChain
<1>3. /\ IsRuleset(k3) /\ DOMAIN k3 = DOMAIN k1 /\ DOMAIN k3[m] = D \cup {a, b} /\ IsRuleset(k3[m])
      /\ \A t \in DOMAIN k1 : t # m => k3[t] = k1[t]
      /\ k3[m][a] = k2[m][a]
      /\ k3[m][b] = Chain("In", "Accept", IF b \in D THEN k1[m][b].rules ELSE << >>)
  <2>1. /\ IsRuleset(k3) /\ DOMAIN k3 = DOMAIN k2 /\ DOMAIN k3[m] = DOMAIN k2[m] \cup {b} /\ IsRuleset(k3[m])
        /\ \A t \in DOMAIN k2 : t # m => k3[t] = k2[t]
        /\ k3[m][b] = Chain("In", "Accept", IF b \in DOMAIN k2[m] THEN k2[m][b].rules ELSE << >>)
        /\ \A d \in DOMAIN k2[m] : d # b => k3[m][d] = k2[m][d]
    BY <1>2, <1>8, ChainAdded, SMTT(30) DEF WithChain
  <2> HIDE DEF D
  <2> QED
    BY <1>2, <2>1, ZenonT(30)
<1>5. OnlyChanges(k, k3, m)
  BY <1>1, <1>3, ZenonT(30) DEF OnlyChanges
<1>6. CASE m \in DOMAIN k
  <2>1. ExampleTable(k1[m], o, i, count)
    BY <1>1, <1>6, ZenonT(30)
  <2>2. /\ D = {a, b} /\ k1[m][a] = Chain("Out", "Accept", OutRules(o, count))
        /\ k1[m][b] = Chain("In", "Accept", InRules(i))
    BY <2>1 DEF ExampleTable
  <2>3. k1[m][a].rules = OutRules(o, count) /\ k1[m][b].rules = InRules(i)
    BY <2>2, ChainRules, SMTT(30)
  <2> QED
    BY <1>2, <1>3, <1>5, <2>2, <2>3, ZenonT(30) DEF ExampleTable
<1>7. CASE m \notin DOMAIN k
  <2>1. D = {} /\ o = 0 /\ i = 0
    BY <1>1, <1>7, SMTT(30)
  <2> QED
    BY <1>2, <1>3, <1>5, <2>1, NoRows, ZenonT(30) DEF ExampleTable
<1> QED
  BY <1>6, <1>7, SMTT(30)

LEMMA InRuleAdded ==
  ASSUME NEW k, IsRuleset(k), "example-table" \in DOMAIN k, NEW o \in Nat, NEW i \in Nat, NEW count,
         ExampleTable(k["example-table"], o, i, count),
         NEW g, g = Apply(k, RuleMsg("example-table", "chain-for-incoming-packets", allow_loopback_in_rule))
  PROVE  OnlyChanges(k, g, "example-table") /\ ExampleTable(g["example-table"], o, i + 1, count)
<1> DEFINE m == "example-table"
           a == "chain-for-outgoing-packets"
           b == "chain-for-incoming-packets"
           tab == k[m]
           x == [exprs |-> allow_loopback_in_rule, counter |-> 0]
           s == InRules(i)
           new == s \o <<x>>
<1>1. /\ IsRuleset(tab) /\ DOMAIN tab = {a, b}
      /\ tab[a] = Chain("Out", "Accept", OutRules(o, count))
      /\ tab[b] = Chain("In", "Accept", s)
  BY DEF ExampleTable
<1>2. new = InRules(i + 1)
  <2>1. IsRow(s, i)
    BY DEF IsRow, InRules
  <2>2. \A j \in 1..i : s[j] = x
    BY DEF InRules
  <2> HIDE DEF s, x
  <2>3. s \o <<x>> = [j \in 1..(i + 1) |-> IF j = i + 1 THEN x ELSE s[j]]
    BY <2>1, RowExtended
  <2>5. \A j \in 1..(i + 1) : (IF j = i + 1 THEN x ELSE s[j]) = x
    BY <2>2, SMTT(30)
  <2> QED
    BY <2>3, <2>5, Zenon DEF InRules, s, x
<1> HIDE DEF s
<1>3. WithRules(k, g, m, b, "In", "Accept", new)
  BY <1>1, RuleAdded, ZenonT(30)
<1> HIDE DEF new, tab
<1>4. /\ IsRuleset(g) /\ DOMAIN g = DOMAIN k /\ DOMAIN g[m] = DOMAIN tab /\ IsRuleset(g[m])
      /\ \A t \in DOMAIN k : t # m => g[t] = k[t]
      /\ g[m][b] = Chain("In", "Accept", new)
      /\ \A c \in DOMAIN tab : c # b => g[m][c] = tab[c]
  BY <1>3, SMTT(30) DEF WithRules, tab
<1> QED
  BY <1>1, <1>2, <1>4, Zenon DEF OnlyChanges, ExampleTable

(* The count that the rows go by.                                          *)
LEMMA OutRuleAdded ==
  ASSUME NEW k, IsRuleset(k), "example-table" \in DOMAIN k, NEW o \in Nat, NEW i \in Nat, NEW count,
         o = 0 => count = 0, ExampleTable(k["example-table"], o, i, count),
         NEW exprs, exprs = IF o % 2 = 0 THEN block_out_to_private_net_rule ELSE allow_router_solicitation,
         NEW g, g = Apply(k, RuleMsg("example-table", "chain-for-outgoing-packets", exprs))
  PROVE  OnlyChanges(k, g, "example-table") /\ ExampleTable(g["example-table"], o + 1, i, count)
<1> DEFINE m == "example-table"
           a == "chain-for-outgoing-packets"
           b == "chain-for-incoming-packets"
           tab == k[m]
           x == [exprs |-> exprs, counter |-> 0]
           s == OutRules(o, count)
           new == s \o <<x>>
<1>1. /\ IsRuleset(tab) /\ DOMAIN tab = {a, b}
      /\ tab[a] = Chain("Out", "Accept", s)
      /\ tab[b] = Chain("In", "Accept", InRules(i))
  BY DEF ExampleTable
<1>2. new = OutRules(o + 1, count)
  <2>1. IsRow(s, o)
    BY DEF IsRow, OutRules
  <2>2. \A j \in 1..o : s[j] = OutRule(j, count)
    BY DEF OutRules
  <2>6. x = OutRule(o + 1, count)
    <3>1. (o + 1) % 2 = 1 <=> o % 2 = 0
      OBVIOUS
    <3>2. o + 1 = 1 <=> o = 0
      OBVIOUS
    <3> QED
      BY <3>1, <3>2 DEF OutRule
  <2> HIDE DEF s, x
  <2>3. s \o <<x>> = [j \in 1..(o + 1) |-> IF j = o + 1 THEN x ELSE s[j]]
    BY <2>1, RowExtended
  <2>5. \A j \in 1..(o + 1) : (IF j = o + 1 THEN x ELSE s[j]) = OutRule(j, count)
    BY <2>2, <2>6
  <2>7. s \o <<x>> = [j \in 1..(o + 1) |-> OutRule(j, count)]
    BY <2>3, <2>5, ZenonT(30)
  <2> QED
    BY <2>7, Zenon DEF OutRules, s, x
<1> HIDE DEF s
<1>3. WithRules(k, g, m, a, "Out", "Accept", new)
  BY <1>1, RuleAdded, ZenonT(30)
<1> HIDE DEF new, tab
<1>4. /\ IsRuleset(g) /\ DOMAIN g = DOMAIN k /\ DOMAIN g[m] = DOMAIN tab /\ IsRuleset(g[m])
      /\ \A t \in DOMAIN k : t # m => g[t] = k[t]
      /\ g[m][a] = Chain("Out", "Accept", new)
      /\ \A c \in DOMAIN tab : c # a => g[m][c] = tab[c]
  BY <1>3 DEF WithRules, tab
<1> QED
  BY <1>1, <1>2, <1>4, ZenonT(30) DEF OnlyChanges, ExampleTable

LEMMA AddRulesCommitted ==
  ASSUME NEW k, IsRuleset(k), NEW n \in Nat, NEW count,
         "example-table" \in DOMAIN k => ExampleTable(k["example-table"], 2 * n, n, count),
         "example-table" \notin DOMAIN k => n = 0 /\ count = 0, n = 0 => count = 0
  PROVE  LET g == Commit(k, AddRulesBatch)
         IN OnlyChanges(k, g, "example-table") /\ ExampleTable(g["example-table"], 2 * (n + 1), n + 1, count)
<1> DEFINE t == "example-table"
           out == "chain-for-outgoing-packets"
           in == "chain-for-incoming-packets"
           a == TableMsg("Add", t)
           b == ChainMsg(t, out, "Out", "Accept")
           c == ChainMsg(t, in, "In", "Accept")
           d == RuleMsg(t, in, allow_loopback_in_rule)
           e == RuleMsg(t, out, block_out_to_private_net_rule)
           h == RuleMsg(t, out, allow_router_solicitation)
           msgs == AddRulesBatch
<1>1. msgs = <<a, b, c, d, e, h>>
  BY Zenon DEF AddRulesBatch
<1> HIDE DEF a, b, c, d, e, h, msgs
<1>2. /\ msgs[1] = a /\ msgs[2] = b /\ msgs[3] = c /\ msgs[4] = d /\ msgs[5] = e /\ msgs[6] = h
      /\ Len(msgs) = 6
  BY <1>1
<1>3. Len(msgs) \in Nat
  BY <1>2
<1>4. PICK f : Commits(f, k, msgs) /\ Commit(k, msgs) = f[Len(msgs)]
  BY <1>3, CommitStates, ZenonT(30)
<1>5. /\ f[0] = k /\ f[1] = Apply(f[0], a) /\ f[2] = Apply(f[1], b) /\ f[3] = Apply(f[2], c)
      /\ f[4] = Apply(f[3], d) /\ f[5] = Apply(f[4], e) /\ f[6] = Apply(f[5], h)
  BY <1>2, <1>4, SMTT(30) DEF Commits
<1>6. OnlyChanges(k, f[3], t) /\ ExampleTable(f[3][t], 2 * n, n, count)
  <2>1. 2 * n \in Nat /\ (n = 0 => 2 * n = 0)
    OBVIOUS
  <2> QED
    BY <1>5, <2>1, ExampleBuilt DEF a, b, c
<1>7. OnlyChanges(f[3], f[4], t) /\ ExampleTable(f[4][t], 2 * n, n + 1, count)
  <2>1. IsRuleset(f[3]) /\ t \in DOMAIN f[3] /\ 2 * n \in Nat
    BY <1>6, SMTT(30) DEF OnlyChanges
  <2> QED
    BY <1>5, <1>6, <2>1, InRuleAdded, ZenonT(30) DEF d
<1>8. OnlyChanges(f[4], f[5], t) /\ ExampleTable(f[5][t], 2 * n + 1, n + 1, count)
  <2>1. 2 * n \in Nat /\ n + 1 \in Nat /\ (2 * n = 0 => n = 0) /\ (2 * n) % 2 = 0
    OBVIOUS
  <2>2. IsRuleset(f[4]) /\ t \in DOMAIN f[4]
    BY <1>7, ZenonT(30) DEF OnlyChanges
  <2> QED
    BY <1>5, <1>7, <2>1, <2>2, OutRuleAdded, ZenonT(30) DEF e
<1>9. OnlyChanges(f[5], f[6], t) /\ ExampleTable(f[6][t], (2 * n + 1) + 1, n + 1, count)
  <2>1. 2 * n + 1 \in Nat /\ n + 1 \in Nat /\ 2 * n + 1 # 0 /\ (2 * n + 1) % 2 # 0
    OBVIOUS
  <2>2. IsRuleset(f[5]) /\ t \in DOMAIN f[5]
    BY <1>8 DEF OnlyChanges
  <2> QED
    BY <1>5, <1>8, <2>1, <2>2, OutRuleAdded, ZenonT(30) DEF h
<1>10. OnlyChanges(k, f[6], t)
  BY <1>6, <1>7, <1>8, <1>9 DEF OnlyChanges
<1>11. (2 * n + 1) + 1 = 2 * (n + 1)
  OBVIOUS
<1> QED
  BY <1>2, <1>4, <1>9, <1>10, <1>11, ZenonT(30) DEF msgs

-----------------------------------------------------------------------------
(* The chains on a packet.                                                 *)

IsChainState(s) == s = [verdict |-> s.verdict, logs |-> s.logs, rules |-> s.rules]

(* The state t behind the rule, when m is what the rule does.              *)
Ran(s, t, rule, m) ==
  /\ IsChainState(t)
  /\ s.verdict # "Continue" =>
       t.verdict = s.verdict /\ t.logs = s.logs /\ t.rules = Append(s.rules, rule)
  /\ s.verdict = "Continue" =>
       /\ t.verdict = IF m.verdict \in {"Accept", "Drop"} THEN m.verdict ELSE "Continue"
       /\ t.logs = s.logs \o m.logs
       /\ t.rules = Append(s.rules, [rule EXCEPT !.counter = @ + m.counted])

LEMMA RuleOnPacket ==
  ASSUME NEW s, IsChainState(s), NEW rule, NEW p
  PROVE  Ran(s, RunRule(s, rule, p), rule, Evaluate(rule.exprs, p, << >>))
<1> DEFINE t == RunRule(s, rule, p)
           m == Evaluate(rule.exprs, p, << >>)
           x == Append(s.rules, rule)
<1>1. CASE s.verdict # "Continue"
  <2>1. t = [s EXCEPT !.rules = x]
    BY <1>1 DEF RunRule
  <2> HIDE DEF x
  <2>2. t = [verdict |-> s.verdict, logs |-> s.logs, rules |-> x]
    BY <2>1 DEF IsChainState
  <2> HIDE DEF t
  <2>3. IsChainState(t) /\ t.verdict = s.verdict /\ t.logs = s.logs /\ t.rules = x
    BY <2>2 DEF IsChainState
  <2> QED
    BY <1>1, <2>3, Zenon DEF t, x, Ran
<1>2. CASE s.verdict = "Continue"
  <2> DEFINE v == IF m.verdict \in {"Accept", "Drop"} THEN m.verdict ELSE "Continue"
             l == s.logs \o m.logs
             r == Append(s.rules, [rule EXCEPT !.counter = @ + m.counted])
  <2>1. t = [verdict |-> v, logs |-> l, rules |-> r]
    BY <1>2, Zenon DEF RunRule
  <2> HIDE DEF t, v, l, r
  <2>2. IsChainState(t) /\ t.verdict = v /\ t.logs = l /\ t.rules = r
    BY <2>1 DEF IsChainState
  <2> QED
    BY <1>2, <2>2 DEF t, v, l, r, Ran
<1> QED
  BY <1>1, <1>2

(* The conditions of the rules of Firewall::start, in their order.         *)
Condition(q, p) ==
  CASE q = 1 -> (p.ct \div ESTABLISHED) % 2 = 1
    [] q = 2 -> p.iifname = lo
    [] q = 3 -> Ssh(p)
    [] q = 4 -> Http(p)
    [] q = 5 -> p.l4 = IPPROTO.ICMP
    [] q = 6 -> p.l4 = IPPROTO.IGMP
    [] q = 7 -> FALSE

LEMMA Conditions ==
  ASSUME NEW p \in Packets
  PROVE  /\ \A q \in 1..5 : Condition(q, p) => Allowed(p)
         /\ Allowed(p) => \E q \in 1..5 : Condition(q, p)
         /\ Condition(6, p) <=> p.l4 = IPPROTO.IGMP
         /\ ~Condition(7, p)
<1>1. /\ Condition(1, p) <=> (p.ct \div ESTABLISHED) % 2 = 1
      /\ Condition(2, p) <=> p.iifname = lo
      /\ Condition(3, p) <=> Ssh(p)
      /\ Condition(4, p) <=> Http(p)
      /\ Condition(5, p) <=> p.l4 = IPPROTO.ICMP
      /\ Condition(6, p) <=> p.l4 = IPPROTO.IGMP
      /\ ~Condition(7, p)
  BY DEF Condition
<1>2. Allowed(p) <=> \/ Condition(1, p) \/ Condition(2, p) \/ Condition(3, p)
                     \/ Condition(4, p) \/ Condition(5, p)
  BY <1>1, Zenon DEF Allowed, AllowedBeforeSsh, Http
<1>3. \A q : q \in 1..5 <=> q = 1 \/ q = 2 \/ q = 3 \/ q = 4 \/ q = 5
  BY SMTT(30)
<1> QED
  BY <1>1, <1>2, <1>3, Zenon

(* What each of the rules does with a packet.                              *)
LEMMA RuleEffect ==
  ASSUME NEW p \in Packets, NEW q \in 1..7
  PROVE  LET m == Evaluate(StartRules[q], p, << >>)
         IN /\ m.verdict \in {"Accept", "Drop"} <=> Condition(q, p)
            /\ Condition(q, p) => m.verdict = IF q = 6 THEN "Drop" ELSE "Accept"
            /\ m.logs = IF q = 7 THEN <<Log(NetfilterGroup, NoLogPrefix)>> ELSE << >>
<1>1. /\ Condition(1, p) <=> (p.ct \div ESTABLISHED) % 2 = 1
      /\ Condition(2, p) <=> p.iifname = lo
      /\ Condition(3, p) <=> Ssh(p)
      /\ Condition(4, p) <=> Http(p)
      /\ Condition(5, p) <=> p.l4 = IPPROTO.ICMP
      /\ Condition(6, p) <=> p.l4 = IPPROTO.IGMP
      /\ ~Condition(7, p)
  BY DEF Condition
<1>2. CASE q = 1
  <2>1. Decides(StartRules[1], p, "Accept", Condition(1, p))
    BY <1>1, EstablishedRule, ZenonT(30) DEF Decides
  <2> QED
    BY <1>2, <2>1, SMTT(30) DEF Decides
<1>3. CASE q = 2
  <2>1. Decides(StartRules[2], p, "Accept", Condition(2, p))
    BY <1>1, LoopbackRule, ZenonT(30) DEF Decides
  <2> QED
    BY <1>3, <2>1, SMTT(30) DEF Decides
<1>4. CASE q = 3
  <2>1. Decides(StartRules[3], p, "Accept", Condition(3, p))
    BY <1>1, SshRule, ZenonT(30) DEF Decides
  <2> QED
    BY <1>4, <2>1, SMTT(30) DEF Decides
<1>5. CASE q = 4
  <2>1. Decides(StartRules[4], p, "Accept", Condition(4, p))
    BY <1>1, HttpRule, ZenonT(30) DEF Decides
  <2> QED
    BY <1>5, <2>1, SMTT(30) DEF Decides
<1>6. CASE q = 5
  <2>1. Decides(StartRules[5], p, "Accept", Condition(5, p))
    BY <1>1, IcmpRules, SMTT(30) DEF Decides
  <2> QED
    BY <1>6, <2>1, SMTT(30) DEF Decides
<1>7. CASE q = 6
  <2>1. Decides(StartRules[6], p, "Drop", Condition(6, p))
    BY <1>1, IcmpRules, ZenonT(30) DEF Decides
  <2> QED
    BY <1>7, <2>1, SMTT(30) DEF Decides
<1>8. CASE q = 7
  <2> DEFINE m == Evaluate(StartRules[7], p, << >>)
  <2>1. m.verdict = "Continue" /\ m.logs = <<Log(NetfilterGroup, NoLogPrefix)>>
    BY LogRule
  <2> HIDE DEF m
  <2>2. m.verdict \notin {"Accept", "Drop"}
    BY <2>1
  <2> QED
    BY <1>1, <1>8, <2>1, <2>2, ZenonT(30) DEF m
<1> QED
  BY <1>2, <1>3, <1>4, <1>5, <1>6, <1>7, <1>8, SMTT(30)

LogEntry == Log(NetfilterGroup, NoLogPrefix)

LogEntries(n) == [j \in 1..n |-> LogEntry]

(* A packet behind the first i rules of the inbound chain: it goes on when *)
(* none of the conditions met so far holds, with one log for every seven   *)
(* rules; else the first one that holds has decided, before any log.       *)
InboundState(s, i, p) ==
  /\ IsChainState(s) /\ s.verdict \in {"Continue", "Accept", "Drop"}
  /\ s.verdict = "Accept" => Allowed(p)
  /\ s.verdict = "Drop" => ~Allowed(p) /\ p.l4 = IPPROTO.IGMP
  /\ s.verdict = "Continue" =>
       (\A q \in 1..7 : q <= i => ~Condition(q, p)) /\ s.logs = LogEntries(i \div 7)
  /\ s.verdict # "Continue" => s.logs = << >>

LEMMA LogsExtended ==
  ASSUME NEW n \in Nat
  PROVE  /\ LogEntries(n) \o <<LogEntry>> = LogEntries(n + 1) /\ LogEntries(n) \o << >> = LogEntries(n)
         /\ LogEntries(0) = << >>
<1> DEFINE s == LogEntries(n)
<1>1. IsRow(s, n) /\ \A j \in 1..n : s[j] = LogEntry
  BY DEF LogEntries, IsRow
<1>2. s \in Seq({LogEntry})
  BY DEF LogEntries
<1> HIDE DEF s
<1>3. s \o <<LogEntry>> = [j \in 1..(n + 1) |-> IF j = n + 1 THEN LogEntry ELSE s[j]]
  BY <1>1, RowExtended
<1>4. s \o <<LogEntry>> = [j \in 1..(n + 1) |-> LogEntry]
  BY <1>1, <1>3
<1>5. s \o << >> = s
  BY <1>2
<1> QED
  BY <1>4, <1>5 DEF s, LogEntries

LEMMA InboundStep ==
  ASSUME NEW p \in Packets, NEW i \in Nat, NEW s, InboundState(s, i, p), NEW rule,
         rule.exprs = StartRules[(i % 7) + 1]
  PROVE  InboundState(RunRule(s, rule, p), i + 1, p)
<1> DEFINE q == (i % 7) + 1
           t == RunRule(s, rule, p)
           m == Evaluate(rule.exprs, p, << >>)
<1>1. q \in 1..7 /\ (i < 7 => q = i + 1) /\ (i >= 7 => q <= i)
  OBVIOUS
<1>2. /\ IsChainState(t)
      /\ s.verdict # "Continue" => t.verdict = s.verdict /\ t.logs = s.logs
      /\ s.verdict = "Continue" =>
           /\ t.verdict = IF m.verdict \in {"Accept", "Drop"} THEN m.verdict ELSE "Continue"
           /\ t.logs = s.logs \o m.logs
  <2>1. Ran(s, t, rule, m)
    BY RuleOnPacket, ZenonT(30) DEF InboundState
  <2> HIDE DEF t, m
  <2> QED
    BY <2>1, ZenonT(30) DEF Ran
<1>3. /\ m.verdict \in {"Accept", "Drop"} <=> Condition(q, p)
      /\ Condition(q, p) => m.verdict = IF q = 6 THEN "Drop" ELSE "Accept"
      /\ m.logs = IF q = 7 THEN <<LogEntry>> ELSE << >>
  BY <1>1, RuleEffect, SMTT(30) DEF LogEntry
<1> HIDE DEF t, m
<1>4. CASE s.verdict # "Continue"
  BY <1>2, <1>4, ZenonT(30) DEF InboundState, t
<1>5. CASE s.verdict = "Continue" /\ Condition(q, p)
  <2>1. (\A c \in 1..7 : c <= i => ~Condition(c, p)) /\ s.logs = LogEntries(i \div 7)
    BY <1>5, ZenonT(30) DEF InboundState
  <2>2. i < 6 /\ q = i + 1
    <3>1. ~(q <= i)
      BY <1>1, <1>5, <2>1
    <3>2. q # 7
      BY <1>5, Conditions, Zenon
    <3> QED
      BY <1>1, <3>1, <3>2, SMTT(30)
  <2>3. s.logs = << >> /\ m.logs = << >>
    <3>1. i \div 7 = 0 /\ q # 7
      BY <2>2
    <3> QED
      BY <1>3, <2>1, <3>1, LogsExtended, ZenonT(30)
  <2>4. t.logs = << >> /\ t.verdict = IF q = 6 THEN "Drop" ELSE "Accept"
    BY <1>2, <1>3, <1>5, <2>3, SMTT(30)
  <2>5. CASE q = 6
    <3>1. \A c \in 1..5 : ~Condition(c, p)
      BY <2>1, <2>2, <2>5
    <3>2. ~Allowed(p) /\ p.l4 = IPPROTO.IGMP
      BY <1>5, <2>5, <3>1, Conditions, ZenonT(30)
    <3>3. t.verdict = "Drop"
      BY <2>4, <2>5, ZenonT(30)
    <3> QED
      BY <1>2, <2>4, <3>2, <3>3, ZenonT(30) DEF InboundState, t
  <2>6. CASE q # 6
    <3>1. q \in 1..5
      BY <2>2, <2>6
    <3>2. Allowed(p)
      BY <1>5, <3>1, Conditions, ZenonT(30)
    <3>3. t.verdict = "Accept"
      BY <2>4, <2>6, ZenonT(30)
    <3> QED
      BY <1>2, <2>4, <3>2, <3>3, ZenonT(30) DEF InboundState, t
  <2> QED
    BY <2>5, <2>6, ZenonT(30)
<1>6. CASE s.verdict = "Continue" /\ ~Condition(q, p)
  <2>1. (\A c \in 1..7 : c <= i => ~Condition(c, p)) /\ s.logs = LogEntries(i \div 7)
    BY <1>6, SMTT(30) DEF InboundState
  <2>2. t.verdict = "Continue" /\ t.logs = s.logs \o m.logs
    BY <1>2, <1>3, <1>6, ZenonT(30)
  <2>3. \A c \in 1..7 : c <= i + 1 => ~Condition(c, p)
    BY <1>1, <1>6, <2>1, SMTT(30)
  <2>4. i \div 7 \in Nat
    OBVIOUS
  <2>5. t.logs = LogEntries((i + 1) \div 7)
    <3>1. CASE q = 7
      <4>1. (i + 1) \div 7 = (i \div 7) + 1
        BY <3>1, SMTT(30)
      <4> QED
        BY <1>3, <2>1, <2>2, <2>4, <3>1, <4>1, LogsExtended, Zenon
    <3>2. CASE q # 7
      <4>1. (i + 1) \div 7 = i \div 7
        BY <3>2
      <4> QED
        BY <1>3, <2>1, <2>2, <2>4, <3>2, <4>1, LogsExtended, ZenonT(30)
    <3> QED
      BY <3>1, <3>2, SMTT(30)
  <2> QED
    BY <1>2, <2>2, <2>3, <2>5, ZenonT(30) DEF InboundState, t
<1> QED
  BY <1>4, <1>5, <1>6

LEMMA InboundRun ==
  ASSUME NEW p \in Packets, NEW n \in Nat
  PROVE  InboundState(RunRules(StartedRules(n), p), n, p)
<1> DEFINE rules == StartedRules(n)
<1>1. Len(rules) = n
  <2>1. IsRow(rules, n)
    BY DEF StartedRules, IsRow
  <2> QED
    BY <2>1, RowLen, ZenonT(30)
<1>2. \A i \in Nat : i + 1 <= n => rules[i + 1].exprs = StartRules[(i % 7) + 1]
  <2>1. \A j \in 1..n : rules[j].exprs = StartRules[((j - 1) % 7) + 1]
    BY DEF StartedRules
  <2>2. \A i \in Nat : (i + 1) - 1 = i /\ (i + 1 <= n => i + 1 \in 1..n)
    OBVIOUS
  <2> HIDE DEF rules
  <2> QED
    BY <2>1, <2>2, SMTT(30)
<1> HIDE DEF rules
<1>3. PICK f : /\ RunRules(rules, p) = f[n] /\ f[0] = NoRules
               /\ \A i \in 1..n : f[i] = RunRule(f[i - 1], rules[i], p)
  BY <1>1, RulesStates
<1> DEFINE S == {i \in Nat : i <= n => InboundState(f[i], i, p)}
<1>4. 0 \in S
  <2>1. InboundState(NoRules, 0, p)
    <3>1. 0 \div 7 = 0 /\ \A q \in 1..7 : ~(q <= 0)
      OBVIOUS
    <3> QED
      BY <3>1, LogsExtended DEF InboundState, NoRules, IsChainState
  <2> QED
    BY <1>3, <2>1, ZenonT(30)
<1>5. ASSUME NEW i \in Nat, i \in S PROVE i + 1 \in S
  <2> SUFFICES ASSUME i + 1 <= n PROVE InboundState(f[i + 1], i + 1, p)
    OBVIOUS
  <2>1. InboundState(f[i], i, p) /\ i + 1 \in 1..n /\ (i + 1) - 1 = i
    BY <1>5
  <2>2. f[i + 1] = RunRule(f[i], rules[i + 1], p)
    BY <1>3, <2>1, SMTT(30)
  <2> QED
    BY <1>2, <2>1, <2>2, InboundStep, ZenonT(30)
<1> HIDE DEF S
<1>6. n \in S
  BY <1>4, <1>5, NaturalInduction, SMTT(30)
<1>7. InboundState(f[n], n, p)
  BY <1>6 DEF S
<1> QED
  BY <1>3, <1>7 DEF rules

(* What the chain makes of the packet that came out of its rules in s.     *)
Behind(r, s, policy) ==
  /\ r.verdict = IF s.verdict = "Continue" THEN policy ELSE s.verdict
  /\ r.logs = s.logs /\ r.rules = s.rules

LEMMA ChainOnPacket ==
  ASSUME NEW hook, NEW policy, NEW rules, NEW p, IsChainState(RunRules(rules, p))
  PROVE  Behind(RunChain(Chain(hook, policy, rules), p), RunRules(rules, p), policy)
<1> DEFINE c == Chain(hook, policy, rules)
           s == RunRules(rules, p)
           r == RunChain(c, p)
           v == IF s.verdict = "Continue" THEN policy ELSE s.verdict
<1>1. c.policy = policy /\ c.rules = rules
  BY ChainRules
<1> HIDE DEF c
<1>2. r = [s EXCEPT !.verdict = v]
  BY <1>1, ZenonT(30) DEF RunChain
<1>3. IsChainState(s)
  OBVIOUS
<1> HIDE DEF v, r, s
<1>4. r.verdict = v /\ r.logs = s.logs /\ r.rules = s.rules
  BY <1>2, <1>3 DEF IsChainState
<1> QED
  BY <1>4, ZenonT(30) DEF Behind, v, r, c, s

LEMMA EmptyRun ==
  ASSUME NEW p PROVE RunRules(<< >>, p) = NoRules
<1>1. Len(<< >>) = 0
  OBVIOUS
<1>2. PICK f : RunRules(<< >>, p) = f[0] /\ f[0] = NoRules
  BY <1>1, RulesStates
<1> QED
  BY <1>2

(* A packet behind the first i rules for outgoing packets: the first rule  *)
(* has counted it if it is private, no other counter has moved.            *)
Hit(p) == IF IsPrivate(p) THEN 1 ELSE 0

OutState(s, i, count, p) ==
  /\ IsChainState(s) /\ s.verdict \in {"Continue", "Accept"}
  /\ s.rules = OutRules(i, count + Hit(p))
  /\ i = 0 => s.verdict = "Continue"
  /\ IsPrivate(p) /\ i > 0 => s.verdict = "Accept"

LEMMA OutAppended ==
  ASSUME NEW i \in Nat, NEW count
  PROVE  Append(OutRules(i, count), OutRule(i + 1, count)) = OutRules(i + 1, count)
<1> DEFINE s == OutRules(i, count)
           x == OutRule(i + 1, count)
<1>1. IsRow(s, i) /\ \A j \in 1..i : s[j] = OutRule(j, count)
  BY DEF IsRow, OutRules
<1> HIDE DEF s, x
<1>2. IsRow(s, i)
  BY <1>1
<1>3. s \o <<x>> = [j \in 1..(i + 1) |-> IF j = i + 1 THEN x ELSE s[j]]
  BY <1>2, RowExtended, SMTT(30)
<1>4. s \o <<x>> = [j \in 1..(i + 1) |-> OutRule(j, count)]
  BY <1>1, <1>3 DEF x
<1>5. Append(s, x) = s \o <<x>>
  BY <1>2, RowAppended, ZenonT(30)
<1> QED
  BY <1>4, <1>5, ZenonT(30) DEF OutRules, s, x

LEMMA OutStep ==
  ASSUME NEW p \in Packets, NEW i \in Nat, NEW count \in Nat, NEW s, OutState(s, i, count, p)
  PROVE  OutState(RunRule(s, OutRule(i + 1, count), p), i + 1, count, p)
<1> DEFINE rule == OutRule(i + 1, count)
           t == RunRule(s, rule, p)
           m == Evaluate(rule.exprs, p, << >>)
           n == count + Hit(p)
<1>1. IsChainState(t) /\ Ran(s, t, rule, m)
  <2>1. IsChainState(s)
    BY DEF OutState
  <2>2. Ran(s, t, rule, m)
    BY <2>1, RuleOnPacket, ZenonT(30)
  <2> QED
    BY <2>2, ZenonT(30) DEF Ran
<1>2. /\ rule.exprs = IF (i + 1) % 2 = 1 THEN block_out_to_private_net_rule ELSE allow_router_solicitation
      /\ rule.counter = IF i = 0 THEN count ELSE 0
      /\ \A c : [rule EXCEPT !.counter = c] = [exprs |-> rule.exprs, counter |-> c]
  BY DEF OutRule
<1>3. m.verdict \in {"Continue", "Break", "Accept"} /\ m.counted \in Nat
  <2>1. CASE (i + 1) % 2 = 1
    BY <1>2, <2>1, BlockRule, SMTT(30)
  <2>2. CASE (i + 1) % 2 # 1
    BY <1>2, <2>2, MildRules, SMTT(30)
  <2> QED
    BY <2>1, <2>2, SMTT(30)
<1>4. i = 0 => m.counted = Hit(p) /\ (IsPrivate(p) => m.verdict = "Accept")
  BY <1>2, BlockRule, SMTT(30) DEF Hit
<1>5. i # 0 /\ ~IsPrivate(p) => m.counted = 0
  <2>1. CASE (i + 1) % 2 = 1
    BY <1>2, <2>1, BlockRule, ZenonT(30)
  <2>2. CASE (i + 1) % 2 # 1
    BY <1>2, <2>2, MildRules, ZenonT(30)
  <2> QED
    BY <2>1, <2>2
<1>6. Hit(p) \in Nat /\ n \in Nat
  BY DEF Hit
<1>7. i # 0 => rule = OutRule(i + 1, n)
  BY DEF OutRule
<1>8. OutRule(1, n) = [exprs |-> OutRule(1, count).exprs, counter |-> n]
  BY DEF OutRule
<1>9. s.rules = OutRules(i, n) /\ (i = 0 => s.verdict = "Continue") /\ s.verdict \in {"Continue", "Accept"}
      /\ (IsPrivate(p) /\ i > 0 => s.verdict = "Accept")
  BY DEF OutState
<1>10. i = 0 => rule = OutRule(1, count) /\ i + 1 = 1
  OBVIOUS
<1>14. (0 + 0 = 0) /\ rule.counter \in Nat
  BY <1>2, SMTT(30)
<1> HIDE DEF rule, m, t, n
<1>11. CASE s.verdict # "Continue"
  <2>1. t.verdict = s.verdict /\ t.rules = Append(s.rules, rule) /\ i # 0
    BY <1>1, <1>9, <1>11, ZenonT(30) DEF Ran
  <2>2. t.rules = OutRules(i + 1, n)
    BY <1>6, <1>7, <1>9, <2>1, OutAppended, ZenonT(30)
  <2> QED
    BY <1>1, <1>9, <1>11, <2>1, <2>2, SMTT(30) DEF OutState, n, t, rule
<1>12. CASE s.verdict = "Continue" /\ i = 0
  <2>1. /\ t.verdict = IF m.verdict \in {"Accept", "Drop"} THEN m.verdict ELSE "Continue"
        /\ t.rules = Append(s.rules, [rule EXCEPT !.counter = @ + m.counted])
    BY <1>1, <1>12 DEF Ran
  <2>2. [rule EXCEPT !.counter = @ + m.counted] = OutRule(i + 1, n)
    <3>1. rule.counter + m.counted = n
      BY <1>2, <1>4, <1>12 DEF n
    <3> QED
      BY <1>2, <1>8, <1>10, <1>12, <3>1, ZenonT(30)
  <2>3. t.rules = OutRules(i + 1, n)
    BY <1>6, <1>9, <2>1, <2>2, OutAppended, ZenonT(30)
  <2>4. t.verdict \in {"Continue", "Accept"} /\ (IsPrivate(p) => t.verdict = "Accept")
    BY <1>3, <1>4, <1>12, <2>1, ZenonT(30)
  <2> QED
    BY <1>1, <2>3, <2>4, SMTT(30) DEF OutState, n, t, rule
<1>13. CASE s.verdict = "Continue" /\ i # 0
  <2>1. /\ t.verdict = IF m.verdict \in {"Accept", "Drop"} THEN m.verdict ELSE "Continue"
        /\ t.rules = Append(s.rules, [rule EXCEPT !.counter = @ + m.counted])
    BY <1>1, <1>13, ZenonT(30) DEF Ran
  <2>2. ~IsPrivate(p) /\ m.counted = 0
    BY <1>5, <1>9, <1>13, SMTT(30)
  <2>3. [rule EXCEPT !.counter = @ + m.counted] = OutRule(i + 1, n)
    <3>1. rule.counter + m.counted = rule.counter
      BY <1>14, <2>2
    <3>2. [rule EXCEPT !.counter = rule.counter] = rule
      BY ZenonT(30) DEF rule, OutRule
    <3> QED
      BY <1>7, <1>13, <3>1, <3>2, ZenonT(30)
  <2>4. t.rules = OutRules(i + 1, n)
    BY <1>6, <1>9, <2>1, <2>3, OutAppended
  <2>5. t.verdict \in {"Continue", "Accept"}
    BY <1>3, <2>1, ZenonT(30)
  <2> QED
    BY <1>1, <2>2, <2>4, <2>5, SMTT(30) DEF OutState, n, t, rule
<1> QED
  BY <1>11, <1>12, <1>13, ZenonT(30)

LEMMA OutRun ==
  ASSUME NEW p \in Packets, NEW o \in Nat, NEW count \in Nat
  PROVE  OutState(RunRules(OutRules(o, count), p), o, count, p)
<1> DEFINE rules == OutRules(o, count)
<1>1. Len(rules) = o
  <2>1. IsRow(rules, o)
    BY DEF OutRules, IsRow
  <2> QED
    BY <2>1, RowLen, ZenonT(30)
<1>2. \A j \in 1..o : rules[j] = OutRule(j, count)
  BY DEF OutRules
<1> HIDE DEF rules
<1>3. PICK f : /\ RunRules(rules, p) = f[o] /\ f[0] = NoRules
               /\ \A i \in 1..o : f[i] = RunRule(f[i - 1], rules[i], p)
  BY <1>1, RulesStates, SMTT(30)
<1> DEFINE S == {i \in Nat : i <= o => OutState(f[i], i, count, p)}
<1>4. 0 \in S
  <2>1. OutState(NoRules, 0, count, p)
    BY NoRows DEF OutState, NoRules, IsChainState
  <2> QED
    BY <1>3, <2>1, ZenonT(30)
<1>5. ASSUME NEW i \in Nat, i \in S PROVE i + 1 \in S
  <2> SUFFICES ASSUME i + 1 <= o PROVE OutState(f[i + 1], i + 1, count, p)
    OBVIOUS
  <2>1. OutState(f[i], i, count, p) /\ i + 1 \in 1..o /\ (i + 1) - 1 = i
    BY <1>5, SMTT(30)
  <2>2. f[i + 1] = RunRule(f[i], OutRule(i + 1, count), p)
    BY <1>2, <1>3, <2>1, ZenonT(30)
  <2> QED
    BY <2>1, <2>2, OutStep, ZenonT(30)
<1> HIDE DEF S
<1>6. o \in S
  BY <1>4, <1>5, NaturalInduction, ZenonT(30)
<1>7. OutState(f[o], o, count, p)
  BY <1>6 DEF S
<1> QED
  BY <1>3, <1>7 DEF rules

(* The rules for incoming packets never drop.                              *)
LEMMA InRun ==
  ASSUME NEW p, NEW n \in Nat
  PROVE  LET s == RunRules(InRules(n), p) IN IsChainState(s) /\ s.verdict \in {"Continue", "Accept"}
<1> DEFINE rules == InRules(n)
           ok(s) == IsChainState(s) /\ s.verdict \in {"Continue", "Accept"}
<1>1. Len(rules) = n
  <2>1. IsRow(rules, n)
    BY DEF InRules, IsRow
  <2> QED
    BY <2>1, RowLen, ZenonT(30)
<1>2. \A j \in 1..n : rules[j].exprs = allow_loopback_in_rule
  BY DEF InRules
<1> HIDE DEF rules
<1>3. PICK f : /\ RunRules(rules, p) = f[n] /\ f[0] = NoRules
               /\ \A i \in 1..n : f[i] = RunRule(f[i - 1], rules[i], p)
  BY <1>1, RulesStates, SMTT(30)
<1> DEFINE S == {i \in Nat : i <= n => ok(f[i])}
<1>4. 0 \in S
  BY <1>3 DEF NoRules, IsChainState
<1>5. ASSUME NEW i \in Nat, i \in S PROVE i + 1 \in S
  <2> SUFFICES ASSUME i + 1 <= n PROVE ok(f[i + 1])
    OBVIOUS
  <2> DEFINE s == f[i]
             t == f[i + 1]
             rule == rules[i + 1]
             m == Evaluate(rule.exprs, p, << >>)
  <2>1. ok(s) /\ i + 1 \in 1..n /\ (i + 1) - 1 = i
    BY <1>5, SMTT(30)
  <2>2. t = RunRule(s, rule, p) /\ rule.exprs = allow_loopback_in_rule
    BY <1>2, <1>3, <2>1, ZenonT(30)
  <2>3. m.verdict \in {"Continue", "Break", "Accept"}
    BY <2>2, MildRules, ZenonT(30)
  <2>4. Ran(s, t, rule, m)
    BY <2>1, <2>2, RuleOnPacket, SMTT(30)
  <2> HIDE DEF s, t, rule, m
  <2>5. ok(t)
    BY <2>1, <2>3, <2>4, Zenon DEF Ran
  <2> QED
    BY <2>5 DEF t
<1> HIDE DEF S
<1>6. n \in S
  BY <1>4, <1>5, NaturalInduction, ZenonT(30)
<1>7. ok(f[n])
  BY <1>6 DEF S
<1> QED
  BY <1>3, <1>7 DEF rules

(* The ruleset between two programs, with `count` packets counted: n rules *)
(* of the firewall in whole starts, and e runs of add-rules.               *)
IsState(k, n, e, count) ==
  /\ IsRuleset(k) /\ DOMAIN k \subseteq {"main-table", "example-table"}
  /\ n % 7 = 0 /\ (n = 0 <=> "main-table" \notin DOMAIN k)
  /\ e = 0 <=> "example-table" \notin DOMAIN k
  /\ e = 0 => count = 0
  /\ "main-table" \in DOMAIN k => MainTable(k["main-table"], n)
  /\ "example-table" \in DOMAIN k => ExampleTable(k["example-table"], 2 * e, e, count)

ExamplesInv == private \in Nat /\ \E n, e \in Nat : IsState(ruleset, n, e, private)

LEMMA StateInit == Init => ExamplesInv
<1> SUFFICES ASSUME Init PROVE ExamplesInv
  OBVIOUS
<1>1. private \in Nat /\ private = 0 /\ DOMAIN ruleset = {} /\ IsRuleset(ruleset)
  BY DEF Init, EmptyRuleset, IsRuleset
<1>2. 0 \in Nat /\ 0 % 7 = 0
  OBVIOUS
<1>3. IsState(ruleset, 0, 0, private)
  BY <1>1, <1>2 DEF IsState
<1> QED
  BY <1>1, <1>2, <1>3, SMTT(30) DEF ExamplesInv

LEMMA StateStart ==
  ASSUME NEW k, NEW n \in Nat, NEW e \in Nat, NEW count, IsState(k, n, e, count)
  PROVE  IsState(Commit(k, StartBatch), n + 7, e, count)
<1> DEFINE g == Commit(k, StartBatch)
<1>1. /\ IsRuleset(k) /\ n % 7 = 0 /\ ("main-table" \in DOMAIN k => MainTable(k["main-table"], n))
      /\ ("main-table" \notin DOMAIN k => n = 0)
  BY DEF IsState
<1>2. OnlyChanges(k, g, "main-table") /\ MainTable(g["main-table"], n + 7)
  BY <1>1, StartCommitted, ZenonT(30)
<1>3. (n + 7) % 7 = 0 /\ n + 7 # 0
  BY <1>1
<1>4. "main-table" # "example-table"
  OBVIOUS
<1> HIDE DEF g
<1>5. DOMAIN g = DOMAIN k \cup {"main-table"} /\ ("example-table" \in DOMAIN k => g["example-table"] = k["example-table"])
      /\ IsRuleset(g)
  BY <1>2, <1>4, ZenonT(30) DEF OnlyChanges
<1>6. IsState(g, n + 7, e, count)
  BY <1>2, <1>3, <1>4, <1>5, ZenonT(30) DEF IsState
<1> QED
  BY <1>6 DEF g

LEMMA StateStop ==
  ASSUME NEW k, NEW n \in Nat, NEW e \in Nat, NEW count, IsState(k, n, e, count)
  PROVE  /\ IsState(Commit(k, StopBatch), 0, e, count)
         /\ DOMAIN Commit(k, StopBatch) = DOMAIN k \ {"main-table"}
         /\ \A t \in DOMAIN Commit(k, StopBatch) : Commit(k, StopBatch)[t] = k[t]
<1> DEFINE g == Commit(k, StopBatch)
<1>1. /\ IsRuleset(k) /\ ("main-table" \in DOMAIN k => MainTable(k["main-table"], n))
      /\ ("main-table" \notin DOMAIN k => n = 0)
  BY DEF IsState
<1>2. WithoutTable(k, g, "main-table")
  BY <1>1, StopCommitted, ZenonT(30)
<1>3. 0 % 7 = 0 /\ "main-table" # "example-table"
  OBVIOUS
<1> HIDE DEF g
<1>4. IsRuleset(g) /\ DOMAIN g = DOMAIN k \ {"main-table"} /\ \A t \in DOMAIN g : g[t] = k[t]
  BY <1>2 DEF WithoutTable
<1>5. "example-table" \in DOMAIN k <=> "example-table" \in DOMAIN g
  BY <1>3, <1>4, ZenonT(30)
<1>6. IsState(g, 0, e, count)
  BY <1>3, <1>4, <1>5, ZenonT(30) DEF IsState
<1> QED
  BY <1>4, <1>6, SMTT(30) DEF g

LEMMA StateAddRules ==
  ASSUME NEW k, NEW n \in Nat, NEW e \in Nat, NEW count, IsState(k, n, e, count)
  PROVE  IsState(Commit(k, AddRulesBatch), n, e + 1, count)
<1> DEFINE g == Commit(k, AddRulesBatch)
<1>1. /\ IsRuleset(k)
      /\ ("example-table" \in DOMAIN k => ExampleTable(k["example-table"], 2 * e, e, count))
      /\ ("example-table" \notin DOMAIN k => e = 0 /\ count = 0)
      /\ (e = 0 => count = 0)
  BY DEF IsState
<1>2. OnlyChanges(k, g, "example-table") /\ ExampleTable(g["example-table"], 2 * (e + 1), e + 1, count)
  BY <1>1, AddRulesCommitted, ZenonT(30)
<1>3. "main-table" # "example-table" /\ e + 1 # 0
  OBVIOUS
<1> HIDE DEF g
<1>4. DOMAIN g = DOMAIN k \cup {"example-table"} /\ ("main-table" \in DOMAIN k => g["main-table"] = k["main-table"])
      /\ IsRuleset(g)
  BY <1>2, <1>3, ZenonT(30) DEF OnlyChanges
<1>5. IsState(g, n, e + 1, count)
  BY <1>2, <1>3, <1>4, ZenonT(30) DEF IsState
<1> QED
  BY <1>5 DEF g

(* An outgoing packet, table by table.                                     *)
Traversed(tab, p) ==
  [c \in DOMAIN tab |-> IF tab[c].hook = "Out" THEN [tab[c] EXCEPT !.rules = RunChain(tab[c], p).rules] ELSE tab[c]]

LEMMA TraverseTables ==
  ASSUME NEW k, NEW p
  PROVE  LET g == Traverse(k, "Out", p) IN IsRuleset(g) /\ DOMAIN g = DOMAIN k /\ \A t \in DOMAIN k : g[t] = Traversed(k[t], p)
<1> DEFINE g == Traverse(k, "Out", p)
<1>1. \A t : \A c \in DOMAIN k[t] : c \in Hooked(k, t, "Out") <=> k[t][c].hook = "Out"
  BY DEF Hooked
<1>2. ASSUME NEW t \in DOMAIN k PROVE g[t] = Traversed(k[t], p)
  <2>1. g[t] = [c \in DOMAIN k[t] |-> IF c \in Hooked(k, t, "Out") THEN [k[t][c] EXCEPT !.rules = RunChain(k[t][c], p).rules]
                                     ELSE k[t][c]]
    BY Zenon DEF Traverse
  <2> QED
    BY <1>1, <2>1, ZenonT(30) DEF Traversed
<1>3. DOMAIN g = DOMAIN k
  BY Zenon DEF Traverse
<1>4. g = [t \in DOMAIN g |-> g[t]]
  BY Zenon DEF Traverse
<1> QED
  BY <1>2, <1>3, <1>4, ZenonT(30) DEF IsRuleset

LEMMA MainTraversed ==
  ASSUME NEW tab, NEW n \in Nat, MainTable(tab, n), NEW p
  PROVE  MainTable(Traversed(tab, p), n)
<1> DEFINE g == Traversed(tab, p)
<1>1. /\ DOMAIN tab = {"in-chain", "out-chain", "forward-chain"}
      /\ tab["in-chain"] = Chain("In", "Drop", StartedRules(n))
      /\ tab["out-chain"] = Chain("Out", "Accept", << >>)
      /\ tab["forward-chain"] = Chain("Forward", "Accept", << >>)
  BY DEF MainTable
<1>2. DOMAIN g = DOMAIN tab /\ g = [c \in DOMAIN g |-> g[c]]
  BY Zenon DEF Traversed
<1>3. g["in-chain"] = tab["in-chain"] /\ g["forward-chain"] = tab["forward-chain"]
  <2>1. tab["in-chain"].hook # "Out" /\ tab["forward-chain"].hook # "Out"
    BY <1>1, ChainRules, SMTT(30)
  <2>2. "in-chain" \in DOMAIN tab /\ "forward-chain" \in DOMAIN tab
    BY <1>1
  <2> QED
    BY <2>1, <2>2, ZenonT(30) DEF Traversed
<1>4. g["out-chain"] = Chain("Out", "Accept", << >>)
  <2>1. tab["out-chain"].hook = "Out" /\ "out-chain" \in DOMAIN tab
    BY <1>1, ChainRules
  <2>2. g["out-chain"] = [tab["out-chain"] EXCEPT !.rules = RunChain(tab["out-chain"], p).rules]
    BY <2>1, ZenonT(30) DEF Traversed
  <2>3. IsChainState(NoRules) /\ NoRules.rules = << >>
    BY DEF NoRules, IsChainState
  <2>4. RunChain(Chain("Out", "Accept", << >>), p).rules = << >>
    <3>1. Behind(RunChain(Chain("Out", "Accept", << >>), p), NoRules, "Accept")
      BY <2>3, EmptyRun, ChainOnPacket, ZenonT(30)
    <3> QED
      BY <2>3, <3>1, ZenonT(30) DEF Behind
  <2>5. g["out-chain"] = [tab["out-chain"] EXCEPT !.rules = << >>]
    BY <1>1, <2>2, <2>4, ZenonT(30)
  <2> DEFINE z == g["out-chain"]
             w == tab["out-chain"]
             x == << >>
  <2>6. w = Chain("Out", "Accept", x) /\ z = [w EXCEPT !.rules = x]
    BY <1>1, <2>5
  <2> HIDE DEF z, w, x
  <2>7. z = Chain("Out", "Accept", x)
    BY <2>6, SMTT(30) DEF Chain
  <2> QED
    BY <2>7 DEF z, x
<1> HIDE DEF g
<1>5. MainTable(g, n)
  BY <1>1, <1>2, <1>3, <1>4, ZenonT(30) DEF MainTable, IsRuleset
<1> QED
  BY <1>5 DEF g

LEMMA ExampleTraversed ==
  ASSUME NEW tab, NEW o \in Nat, NEW i, NEW count \in Nat, ExampleTable(tab, o, i, count), NEW p \in Packets
  PROVE  ExampleTable(Traversed(tab, p), o, i, count + Hit(p))
<1> DEFINE g == Traversed(tab, p)
           out == "chain-for-outgoing-packets"
           in == "chain-for-incoming-packets"
           s == RunRules(OutRules(o, count), p)
<1>1. /\ DOMAIN tab = {out, in}
      /\ tab[out] = Chain("Out", "Accept", OutRules(o, count))
      /\ tab[in] = Chain("In", "Accept", InRules(i))
  BY DEF ExampleTable
<1>2. DOMAIN g = DOMAIN tab /\ g = [c \in DOMAIN g |-> g[c]]
  BY Zenon DEF Traversed
<1>3. g[in] = tab[in]
  <2>1. tab[in].hook # "Out" /\ in \in DOMAIN tab
    BY <1>1, ChainRules, SMTT(30)
  <2> QED
    BY <2>1, ZenonT(30) DEF Traversed
<1>4. g[out] = Chain("Out", "Accept", OutRules(o, count + Hit(p)))
  <2>1. tab[out].hook = "Out" /\ out \in DOMAIN tab
    BY <1>1, ChainRules
  <2>2. g[out] = [tab[out] EXCEPT !.rules = RunChain(tab[out], p).rules]
    BY <2>1, ZenonT(30) DEF Traversed
  <2>3. OutState(s, o, count, p)
    BY OutRun
  <2>4. IsChainState(s) /\ s.rules = OutRules(o, count + Hit(p))
    BY <2>3, Zenon DEF OutState
  <2>5. RunChain(Chain("Out", "Accept", OutRules(o, count)), p).rules = s.rules
    <3>1. Behind(RunChain(Chain("Out", "Accept", OutRules(o, count)), p), s, "Accept")
      BY <2>4, ChainOnPacket, ZenonT(30)
    <3> QED
      BY <3>1, Zenon DEF Behind
  <2>6. g[out] = [tab[out] EXCEPT !.rules = OutRules(o, count + Hit(p))]
    BY <1>1, <2>2, <2>4, <2>5, ZenonT(30)
  <2> DEFINE x == OutRules(o, count)
             y == OutRules(o, count + Hit(p))
             z == g[out]
             w == tab[out]
  <2>7. w = Chain("Out", "Accept", x) /\ z = [w EXCEPT !.rules = y]
    BY <1>1, <2>6, SMTT(30)
  <2> HIDE DEF x, y, z, w
  <2>8. z = Chain("Out", "Accept", y)
    BY <2>7 DEF Chain
  <2> QED
    BY <2>8 DEF z, y
<1> HIDE DEF g
<1>5. ExampleTable(g, o, i, count + Hit(p))
  BY <1>1, <1>2, <1>3, <1>4, ZenonT(30) DEF ExampleTable, IsRuleset
<1> QED
  BY <1>5 DEF g

LEMMA StateOutgoing ==
  ASSUME NEW k, NEW n \in Nat, NEW e \in Nat, NEW count \in Nat, IsState(k, n, e, count),
         "example-table" \in DOMAIN k, NEW p \in Packets
  PROVE  IsState(Traverse(k, "Out", p), n, e, count + Hit(p))
<1> DEFINE g == Traverse(k, "Out", p)
<1>1. IsRuleset(g) /\ DOMAIN g = DOMAIN k /\ \A t \in DOMAIN k : g[t] = Traversed(k[t], p)
  BY TraverseTables
<1>2. "main-table" \in DOMAIN k => MainTable(g["main-table"], n)
  BY <1>1, MainTraversed, ZenonT(30) DEF IsState
<1>3. 2 * e \in Nat
  OBVIOUS
<1>4. ExampleTable(k["example-table"], 2 * e, e, count) /\ e # 0
  BY DEF IsState
<1>5. ExampleTable(g["example-table"], 2 * e, e, count + Hit(p))
  BY <1>1, <1>3, <1>4, ExampleTraversed, ZenonT(30)
<1> HIDE DEF g
<1>6. IsState(g, n, e, count + Hit(p))
  BY <1>1, <1>2, <1>4, <1>5, ZenonT(30) DEF IsState
<1> QED
  BY <1>6 DEF g

LEMMA StateNext == ExamplesInv /\ [Next]_vars => ExamplesInv'
<1> SUFFICES ASSUME ExamplesInv, [Next]_vars PROVE ExamplesInv'
  OBVIOUS
<1>1. PICK n \in Nat, e \in Nat : IsState(ruleset, n, e, private)
  BY DEF ExamplesInv
<1>2. private \in Nat
  BY DEF ExamplesInv
<1>3. CASE FirewallStart
  <2>1. private' = private /\ (ruleset' = ruleset \/ ruleset' = Commit(ruleset, StartBatch))
    BY <1>3 DEF FirewallStart, Run
  <2>2. IsState(ruleset', n, e, private') \/ IsState(ruleset', n + 7, e, private')
    BY <1>1, <2>1, StateStart, ZenonT(30)
  <2> QED
    BY <1>2, <2>1, <2>2 DEF ExamplesInv
<1>4. CASE FirewallStop
  <2>1. private' = private /\ (ruleset' = ruleset \/ ruleset' = Commit(ruleset, StopBatch))
    BY <1>4 DEF FirewallStop, Run
  <2>3. IsState(Commit(ruleset, StopBatch), 0, e, private)
    BY <1>1, StateStop, ZenonT(30)
  <2>2. IsState(ruleset', n, e, private') \/ IsState(ruleset', 0, e, private')
    BY <1>1, <2>1, <2>3, ZenonT(30)
  <2> QED
    BY <1>2, <2>1, <2>2, ZenonT(30) DEF ExamplesInv
<1>5. CASE AddRules
  <2>1. private' = private /\ (ruleset' = ruleset \/ ruleset' = Commit(ruleset, AddRulesBatch))
    BY <1>5 DEF AddRules, Run
  <2>2. IsState(ruleset', n, e, private') \/ IsState(ruleset', n, e + 1, private')
    BY <1>1, <2>1, StateAddRules, ZenonT(30)
  <2> QED
    BY <1>2, <2>1, <2>2, SMTT(30) DEF ExamplesInv
<1>6. ASSUME NEW p \in Packets, Outgoing(p) PROVE ExamplesInv'
  <2>1. /\ "example-table" \in DOMAIN ruleset /\ ruleset' = Traverse(ruleset, "Out", p)
        /\ private' = private + Hit(p) /\ private' \in Nat
    BY <1>2, <1>6 DEF Outgoing, Hit
  <2>2. IsState(ruleset', n, e, private')
    BY <1>1, <1>2, <2>1, StateOutgoing, ZenonT(30)
  <2> QED
    BY <2>1, <2>2, ZenonT(30) DEF ExamplesInv
<1>7. CASE UNCHANGED vars
  BY <1>7, ZenonT(30) DEF vars, ExamplesInv
<1> QED
  BY <1>3, <1>4, <1>5, <1>6, <1>7, ZenonT(30) DEF Next

(* A packet that comes in, at the inbound chain of a firewall that was     *)
(* started.                                                                *)
LEMMA InChainDecides ==
  ASSUME NEW p \in Packets, NEW n \in Nat, n # 0, n % 7 = 0, NEW c, c = Chain("In", "Drop", StartedRules(n))
  PROVE  /\ RunChain(c, p).verdict = "Accept" <=> Allowed(p)
         /\ RunChain(c, p).logs = IF Allowed(p) \/ p.l4 = IPPROTO.IGMP THEN << >> ELSE LogEntries(n \div 7)
<1> DEFINE s == RunRules(StartedRules(n), p)
           r == RunChain(c, p)
<1>1. InboundState(s, n, p)
  BY InboundRun, Zenon
<1>2. IsChainState(s)
  BY <1>1, Zenon DEF InboundState
<1>3. Behind(r, s, "Drop")
  BY <1>2, ChainOnPacket, ZenonT(30)
<1>4. n >= 7
  OBVIOUS
<1>5. s.verdict = "Continue" => ~Allowed(p) /\ p.l4 # IPPROTO.IGMP
  <2> SUFFICES ASSUME s.verdict = "Continue" PROVE ~Allowed(p) /\ p.l4 # IPPROTO.IGMP
    OBVIOUS
  <2>1. \A q \in 1..7 : q <= n => ~Condition(q, p)
    BY <1>1, Zenon DEF InboundState
  <2>2. \A q \in 1..5 : ~Condition(q, p)
    BY <1>4, <2>1, SMTT(30)
  <2>3. ~Condition(6, p)
    BY <1>4, <2>1
  <2> QED
    BY <2>2, <2>3, Conditions, ZenonT(30)
<1> HIDE DEF s, r
<1>6. /\ s.verdict \in {"Continue", "Accept", "Drop"}
      /\ s.verdict = "Accept" => Allowed(p)
      /\ s.verdict = "Drop" => ~Allowed(p) /\ p.l4 = IPPROTO.IGMP
      /\ s.verdict = "Continue" => s.logs = LogEntries(n \div 7)
      /\ s.verdict # "Continue" => s.logs = << >>
  BY <1>1, Zenon DEF InboundState
<1>7. r.verdict = (IF s.verdict = "Continue" THEN "Drop" ELSE s.verdict) /\ r.logs = s.logs
  BY <1>3, ZenonT(30) DEF Behind
<1>8. r.verdict = "Accept" <=> Allowed(p)
  BY <1>5, <1>6, <1>7, ZenonT(30)
<1>9. r.logs = IF Allowed(p) \/ p.l4 = IPPROTO.IGMP THEN << >> ELSE LogEntries(n \div 7)
  BY <1>5, <1>6, <1>7, ZenonT(30)
<1> QED
  BY <1>8, <1>9 DEF r

(* Every other chain accepts what its rules leave undecided.               *)
OpenChain(c, e, count) ==
  \/ c = Chain(c.hook, "Accept", << >>)
  \/ c = Chain(c.hook, "Accept", OutRules(2 * e, count))
  \/ c = Chain(c.hook, "Accept", InRules(e))

LEMMA OtherChainsAccept ==
  ASSUME NEW p \in Packets, NEW c, NEW e \in Nat, NEW count \in Nat, OpenChain(c, e, count)
  PROVE  RunChain(c, p).verdict = "Accept"
<1> DEFINE hook == c.hook
<1> HIDE DEF hook
<1>1. ASSUME NEW rules, c = Chain(hook, "Accept", rules), NEW s, s = RunRules(rules, p),
             IsChainState(s), s.verdict \in {"Continue", "Accept"}
      PROVE  RunChain(c, p).verdict = "Accept"
  <2>1. Behind(RunChain(c, p), s, "Accept")
    BY <1>1, ChainOnPacket, ZenonT(30)
  <2>2. RunChain(c, p).verdict = IF s.verdict = "Continue" THEN "Accept" ELSE s.verdict
    BY <2>1, Zenon DEF Behind
  <2> QED
    BY <1>1, <2>2, ZenonT(30)
<1>2. CASE c = Chain(hook, "Accept", << >>)
  <2>1. RunRules(<< >>, p) = NoRules /\ IsChainState(NoRules) /\ NoRules.verdict \in {"Continue", "Accept"}
    BY EmptyRun DEF NoRules, IsChainState
  <2> QED
    BY <1>1, <1>2, <2>1, ZenonT(30)
<1>3. CASE c = Chain(hook, "Accept", OutRules(2 * e, count))
  <2>1. 2 * e \in Nat
    OBVIOUS
  <2>2. OutState(RunRules(OutRules(2 * e, count), p), 2 * e, count, p)
    BY <2>1, OutRun, ZenonT(30)
  <2>3. LET s == RunRules(OutRules(2 * e, count), p) IN IsChainState(s) /\ s.verdict \in {"Continue", "Accept"}
    BY <2>2, Zenon DEF OutState
  <2> QED
    BY <1>1, <1>3, <2>3, ZenonT(30)
<1>4. CASE c = Chain(hook, "Accept", InRules(e))
  <2>1. LET s == RunRules(InRules(e), p) IN IsChainState(s) /\ s.verdict \in {"Continue", "Accept"}
    BY InRun, ZenonT(30)
  <2> QED
    BY <1>1, <1>4, <2>1, ZenonT(30)
<1> QED
  BY <1>2, <1>3, <1>4, ZenonT(30) DEF OpenChain, hook

(* The chains that a packet meets.                                         *)
LEMMA ChainsAre ==
  ASSUME NEW k, NEW n \in Nat, NEW e \in Nat, NEW count \in Nat, IsState(k, n, e, count),
         NEW t \in DOMAIN k, NEW c \in DOMAIN k[t]
  PROVE  \/ t = "main-table" /\ c = "in-chain" /\ k[t][c].hook = "In"
         \/ ~(t = "main-table" /\ c = "in-chain") /\ OpenChain(k[t][c], e, count)
<1>1. t \in {"main-table", "example-table"}
  BY DEF IsState
<1>2. CASE t = "main-table"
  <2>1. MainTable(k[t], n)
    BY <1>2 DEF IsState
  <2> DEFINE tab == k[t]
  <2> HIDE DEF tab
  <2>2. MainTable(tab, n) /\ c \in DOMAIN tab
    BY <2>1, ZenonT(30) DEF tab
  <2>3. c \in {"in-chain", "out-chain", "forward-chain"}
    BY <2>2, ZenonT(30) DEF MainTable
  <2>4. tab["in-chain"].hook = "In"
    BY <2>2, ChainRules, SMTT(30) DEF MainTable
  <2>5. c # "in-chain" => tab[c] = Chain(tab[c].hook, "Accept", << >>)
    BY <2>2, <2>3, ChainRules, SMTT(30) DEF MainTable
  <2> QED
    BY <1>2, <2>3, <2>4, <2>5, ZenonT(30) DEF tab, OpenChain
<1>3. CASE t = "example-table"
  <2>1. ExampleTable(k[t], 2 * e, e, count) /\ t # "main-table"
    BY <1>3 DEF IsState
  <2> DEFINE tab == k[t]
  <2> HIDE DEF tab
  <2>2. ExampleTable(tab, 2 * e, e, count) /\ c \in DOMAIN tab
    BY <2>1, ZenonT(30) DEF tab
  <2>3. c \in {"chain-for-outgoing-packets", "chain-for-incoming-packets"}
    BY <2>2, ZenonT(30) DEF ExampleTable
  <2>4. \/ tab[c] = Chain(tab[c].hook, "Accept", OutRules(2 * e, count))
        \/ tab[c] = Chain(tab[c].hook, "Accept", InRules(e))
    BY <2>2, <2>3, ChainRules, SMTT(30) DEF ExampleTable
  <2> QED
    BY <2>1, <2>4, ZenonT(30) DEF tab, OpenChain
<1> QED
  BY <1>1, <1>2, <1>3, ZenonT(30)

(* In a table of firewall.rs and in a table of add-rules.rs, every chain   *)
(* but the inbound one lets every packet pass.                             *)
LEMMA OthersPass ==
  ASSUME NEW k, NEW n \in Nat, NEW e \in Nat, NEW count \in Nat, IsState(k, n, e, count), NEW p \in Packets
  PROVE  \A t \in DOMAIN k : \A c \in DOMAIN k[t] :
           ~(t = "main-table" /\ c = "in-chain") => RunChain(k[t][c], p).verdict = "Accept"
BY ChainsAre, OtherChainsAccept, ZenonT(30)

LEMMA InboundHolds == ExamplesInv => InboundAsCommented /\ LogsExact
<1> SUFFICES ASSUME ExamplesInv, Running, NEW p \in Packets
             PROVE  /\ Passes(ruleset, "In", p) <=> Allowed(p)
                    /\ LET logs == RunChain(InChain, p).logs
                       IN IF Allowed(p) \/ p.l4 = IPPROTO.IGMP THEN logs = << >>
                          ELSE logs = [i \in 1..(Len(InChain.rules) \div Len(StartRules)) |-> Log(NetfilterGroup, NoLogPrefix)]
  BY ZenonT(30) DEF InboundAsCommented, LogsExact
<1> DEFINE k == ruleset
           main == "main-table"
           in == "in-chain"
<1>1. PICK n \in Nat, e \in Nat : IsState(k, n, e, private)
  BY DEF ExamplesInv
<1>2. private \in Nat
  BY DEF ExamplesInv
<1>3. main \in DOMAIN k /\ MainTable(k[main], n) /\ n # 0 /\ n % 7 = 0
  BY <1>1 DEF IsState, Running
<1>4. InChain = Chain("In", "Drop", StartedRules(n)) /\ in \in DOMAIN k[main]
  BY <1>3 DEF MainTable, InChain
<1>5. /\ RunChain(InChain, p).verdict = "Accept" <=> Allowed(p)
      /\ RunChain(InChain, p).logs = IF Allowed(p) \/ p.l4 = IPPROTO.IGMP THEN << >> ELSE LogEntries(n \div 7)
  BY <1>3, <1>4, InChainDecides, ZenonT(30)
<1>6. InChain = k[main][in] /\ InChain.hook = "In"
  BY <1>4, ChainRules, SMTT(30) DEF InChain
<1>7. Passes(k, "In", p) <=> Allowed(p)
  <2>1. \A t \in DOMAIN k : \A c \in DOMAIN k[t] : ~(t = main /\ c = in) => RunChain(k[t][c], p).verdict = "Accept"
    BY <1>1, <1>2, OthersPass, ZenonT(30)
  <2>2. in \in Hooked(k, main, "In")
    BY <1>4, <1>6, ZenonT(30) DEF Hooked
  <2>3. \A t : Hooked(k, t, "In") \subseteq DOMAIN k[t]
    BY ZenonT(30) DEF Hooked
  <2> HIDE DEF k, main, in
  <2> QED
    BY <1>3, <1>5, <1>6, <2>1, <2>2, <2>3, ZenonT(30) DEF Passes
<1>8. Len(InChain.rules) \div Len(StartRules) = n \div 7
  <2>1. InChain.rules = StartedRules(n)
    BY <1>4, ChainRules, SMTT(30)
  <2>2. IsRow(StartedRules(n), n)
    BY DEF StartedRules, IsRow
  <2>3. Len(StartedRules(n)) = n
    BY <2>2, RowLen, ZenonT(30)
  <2> QED
    BY <2>1, <2>3, StartRulesAre, ZenonT(30)
<1>9. LogEntries(n \div 7) = [i \in 1..(n \div 7) |-> Log(NetfilterGroup, NoLogPrefix)]
  BY Zenon DEF LogEntries, LogEntry
<1> QED
  BY <1>5, <1>7, <1>8, <1>9, ZenonT(30)

LEMMA OutboundHolds == ExamplesInv => OutboundAccepted /\ CounterExact
<1> SUFFICES ASSUME ExamplesInv PROVE OutboundAccepted /\ CounterExact
  OBVIOUS
<1> DEFINE k == ruleset
<1>1. PICK n \in Nat, e \in Nat : IsState(k, n, e, private)
  BY DEF ExamplesInv
<1>2. private \in Nat
  BY DEF ExamplesInv
<1>3. ASSUME NEW p \in Packets, NEW hook \in {"Out", "Forward"} PROVE Passes(k, hook, p)
  <2> SUFFICES ASSUME NEW t \in DOMAIN k, NEW c \in Hooked(k, t, hook) PROVE RunChain(k[t][c], p).verdict = "Accept"
    BY Zenon DEF Passes
  <2>1. c \in DOMAIN k[t] /\ k[t][c].hook = hook
    BY Zenon DEF Hooked
  <2>2. k[t][c].hook # "In"
    BY <2>1
  <2>3. ~(t = "main-table" /\ c = "in-chain")
    BY <1>1, <1>2, <2>1, <2>2, ChainsAre, ZenonT(30)
  <2> QED
    BY <1>1, <1>2, <2>1, <2>3, OthersPass, ZenonT(30)
<1>4. ASSUME "example-table" \in DOMAIN k, NEW i \in DOMAIN k["example-table"]["chain-for-outgoing-packets"].rules
      PROVE  k["example-table"]["chain-for-outgoing-packets"].rules[i].counter = IF i = 1 THEN private ELSE 0
  <2>1. ExampleTable(k["example-table"], 2 * e, e, private)
    BY <1>1, <1>4, ZenonT(30) DEF IsState
  <2>2. k["example-table"]["chain-for-outgoing-packets"].rules = OutRules(2 * e, private)
    <3>1. k["example-table"]["chain-for-outgoing-packets"] = Chain("Out", "Accept", OutRules(2 * e, private))
      BY <2>1, Zenon DEF ExampleTable
    <3> QED
      BY <3>1, ChainRules, SMTT(30)
  <2>3. i \in 1..(2 * e) /\ OutRules(2 * e, private)[i] = OutRule(i, private)
    BY <1>4, <2>2, ZenonT(30) DEF OutRules
  <2>4. OutRule(i, private).counter = IF i = 1 THEN private ELSE 0
    BY DEF OutRule
  <2> QED
    BY <2>2, <2>3, <2>4, ZenonT(30)
<1>5. OutboundAccepted
  BY <1>3, Zenon DEF OutboundAccepted
<1>6. CounterExact
  BY <1>4, Zenon DEF CounterExact
<1> QED
  BY <1>5, <1>6

(* The tables of the kernel are always those of whole runs of firewall.rs  *)
(* and add-rules.rs: a batch is committed as a whole or not at all, and a  *)
(* packet changes nothing but the first counter.                           *)
THEOREM ExamplesInvariant == Spec => []ExamplesInv
BY StateInit, StateNext, PTL DEF Spec

(* firewall.rs: whenever its table is there, exactly the packets that the  *)
(* comments of Firewall::start allow come in, for every set of packets,    *)
(* whatever the two programs did before.                                   *)
THEOREM ExamplesInbound == Spec => []InboundAsCommented
<1>1. ExamplesInv => InboundAsCommented
  BY InboundHolds, ZenonT(30)
<1> QED
  BY <1>1, ExamplesInvariant, PTL

(* No rule and no policy of the two programs stops a packet that leaves    *)
(* the host or is forwarded.                                               *)
THEOREM ExamplesOutbound == Spec => []OutboundAccepted
<1>1. ExamplesInv => OutboundAccepted
  BY OutboundHolds, SMTT(30)
<1> QED
  BY <1>1, ExamplesInvariant, PTL

(* The counter of add-rules.rs is the number of packets to 10.1.0.0/24     *)
(* since the rules were first added, however often they are added again.   *)
THEOREM ExamplesCounter == Spec => []CounterExact
<1>1. ExamplesInv => CounterExact
  BY OutboundHolds, ZenonT(30)
<1> QED
  BY <1>1, ExamplesInvariant, PTL

(* The inbound chain logs exactly the traffic that no rule decides, once   *)
(* for every time that Firewall::start ran.                                *)
THEOREM ExamplesLogs == Spec => []LogsExact
<1>1. ExamplesInv => LogsExact
  BY InboundHolds
<1> QED
  BY <1>1, ExamplesInvariant, PTL

(* Firewall::stop: a stop that succeeds removes the table of the firewall  *)
(* whether it was there or not, and leaves every other as it was.          *)
THEOREM ExamplesStop == Spec => StopRemoves
<1> DEFINE removes == FirewallStop /\ result' = "Ok" =>
                        /\ DOMAIN ruleset' = DOMAIN ruleset \ {"main-table"}
                        /\ \A t \in DOMAIN ruleset' : ruleset'[t] = ruleset[t]
<1>1. ExamplesInv /\ [Next]_vars => [removes]_vars
  <2> SUFFICES ASSUME ExamplesInv, FirewallStop, result' = "Ok"
               PROVE  /\ DOMAIN ruleset' = DOMAIN ruleset \ {"main-table"}
                      /\ \A t \in DOMAIN ruleset' : ruleset'[t] = ruleset[t]
    OBVIOUS
  <2>1. PICK n \in Nat, e \in Nat : IsState(ruleset, n, e, private)
    BY DEF ExamplesInv
  <2>2. ruleset' = Commit(ruleset, StopBatch)
    BY DEF FirewallStop, Run
  <2>3. /\ DOMAIN Commit(ruleset, StopBatch) = DOMAIN ruleset \ {"main-table"}
        /\ \A t \in DOMAIN Commit(ruleset, StopBatch) : Commit(ruleset, StopBatch)[t] = ruleset[t]
    BY <2>1, StateStop, Zenon
  <2> QED
    BY <2>2, <2>3, ZenonT(30)
<1> QED
  BY <1>1, ExamplesInvariant, PTL DEF Spec, StopRemoves

=============================================================================
