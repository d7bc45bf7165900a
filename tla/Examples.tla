----------------------------- MODULE Examples ------------------------------
(***************************************************************************)
(* The programs of examples/firewall.rs (start and stop) and               *)
(* examples/add-rules.rs, run any number of times in any order on one      *)
(* host, and the packets that pass the host meanwhile.  Each program       *)
(* builds its objects, puts them into one batch and sends it; the kernel   *)
(* commits the batch or changes nothing.                                   *)
(***************************************************************************)
EXTENDS Ruleset

CONSTANTS lo,             \* the name of the loopback interface, as bytes
          LoIndex,        \* and its index
          MaxRuns,        \* how often the programs are run
          MaxPackets      \* how many outgoing packets are watched

VARIABLES ruleset,        \* the tables of the kernel
          runs,           \* how many programs have run
          result,         \* what the last one returned
          watched,        \* outgoing packets since add-rules was first run, a ghost
          private         \* how many of them went to 10.1.0.0/24, a ghost

vars == <<ruleset, runs, result, watched, private>>

(* The programs run on a host like the ones they were written for:         *)
(* add-rules.rs compares the interface index with to_le_bytes.             *)
ASSUME HostAssumption ==
  IsInterfaceName(lo) /\ \A p \in Packets : p.host = "little"

Init == ruleset = EmptyRuleset /\ runs = 0 /\ result = "none" /\ watched = 0 /\ private = 0

-----------------------------------------------------------------------------
(* examples/firewall.rs                                                    *)
NoLogPrefix == 0
SshPrefix == 21           \* the bytes of "allow ssh connection:"
NetfilterGroup == 1
LocalNet == [ip |-> <<192, 168, 1, 0>>, prefix |-> 24]

(* Mutant: the policies of the inbound and the forward chain are swapped.  *)
FirewallBatchSwapped ==
  << TableMsg("Add", "main-table"), ChainMsg("main-table", "in-chain", "In", "Accept"),
     ChainMsg("main-table", "out-chain", "Out", "Accept"),
     ChainMsg("main-table", "forward-chain", "Forward", "Drop") >>

(* Firewall::new: what the batch holds when start or stop is called.       *)
FirewallBatch ==
  << TableMsg("Add", "main-table"), ChainMsg("main-table", "in-chain", "In", "Drop"),
     ChainMsg("main-table", "out-chain", "Out", "Accept"),
     ChainMsg("main-table", "forward-chain", "Forward", "Accept") >>

(* Mutant: ssh is logged before it is accepted.                            *)
StartRulesLogFirst ==
  << established \o accept, iface(lo) \o accept,
     dport(22, "TCP") \o <<Log(NoLogGroup, SshPrefix)>> \o accept,
     dport(80, "TCP") \o snetwork(LocalNet) \o accept,
     icmp \o accept, igmp \o drop, <<Log(NetfilterGroup, NoLogPrefix)>> >>

(* Firewall::start: the rules of the inbound chain.                        *)
StartRules ==
  << established \o accept, iface(lo) \o accept,
     dport(22, "TCP") \o accept \o <<Log(NoLogGroup, SshPrefix)>>,
     dport(80, "TCP") \o snetwork(LocalNet) \o accept,
     icmp \o accept, igmp \o drop, <<Log(NetfilterGroup, NoLogPrefix)>> >>

StartBatch ==
  FirewallBatch \o [i \in DOMAIN StartRules |-> RuleMsg("main-table", "in-chain", StartRules[i])]

(* Mutant: the table is only added again.                                  *)
StopBatchAddOnly == FirewallBatch \o <<TableMsg("Add", "main-table")>>

StopBatch == FirewallBatch \o <<TableMsg("Add", "main-table"), TableMsg("Del", "main-table")>>

-----------------------------------------------------------------------------
(* examples/add-rules.rs                                                   *)
PrivateNet == [ip |-> <<10, 1, 0, 0>>, prefix |-> 24]

allow_loopback_in_rule == <<Meta("Iif"), Cmp("Eq", LE32(LoIndex)), ImmediateVerdict("Accept")>>

(* Mutant: the counter is put in front of the comparison.                  *)
block_out_counted_early ==
  << Meta("NfProto"), Cmp("Eq", <<NFPROTO_IPV4>>), Build("IPv4", "Daddr"),
     Bitwise(mask(PrivateNet), Zeros(4)), Counter, Cmp("Eq", PrivateNet.ip), ImmediateVerdict("Accept") >>

block_out_to_private_net_rule ==
  << Meta("NfProto"), Cmp("Eq", <<NFPROTO_IPV4>>), Build("IPv4", "Daddr"),
     Bitwise(mask(PrivateNet), Zeros(4)), Cmp("Eq", PrivateNet.ip), Counter, ImmediateVerdict("Accept") >>

allow_router_solicitation ==
  << Meta("NfProto"), Cmp("Eq", <<NFPROTO_IPV6>>), Meta("L4Proto"), Cmp("Eq", <<IPPROTO.ICMPV6>>),
     Build("ICMPv6", "Type"), Cmp("Eq", <<133>>), Build("ICMPv6", "Code"), Cmp("Eq", <<0>>),
     ImmediateVerdict("Accept") >>

AddRulesBatch ==
  LET out == "chain-for-outgoing-packets"
      in == "chain-for-incoming-packets"
  IN << TableMsg("Add", "example-table"), ChainMsg("example-table", out, "Out", "Accept"),
        ChainMsg("example-table", in, "In", "Accept"), RuleMsg("example-table", in, allow_loopback_in_rule),
        RuleMsg("example-table", out, block_out_to_private_net_rule),
        RuleMsg("example-table", out, allow_router_solicitation) >>

-----------------------------------------------------------------------------
(* One run of a program: its batch is committed, or Batch::send fails.  It *)
(* may fail behind the commit, when recv() or close() does.                *)
Run(batch) ==
  /\ runs < MaxRuns
  /\ runs' = runs + 1
  /\ \/ result' \in {"Ok", "Err"} /\ ruleset' = Commit(ruleset, batch)
     \/ result' = "Err" /\ UNCHANGED ruleset
  /\ UNCHANGED <<watched, private>>

FirewallStart == Run(StartBatch)
FirewallStop == Run(StopBatch)
AddRules == Run(AddRulesBatch)

(* A packet leaves the host.                                               *)
IsPrivate(p) == p.nfproto = NFPROTO_IPV4 /\ SubSeq(p.daddr, 1, 3) = <<10, 1, 0>>

Outgoing(p) ==
  /\ "example-table" \in DOMAIN ruleset /\ watched < MaxPackets
  /\ ruleset' = Traverse(ruleset, "Out", p)
  /\ watched' = watched + 1
  /\ private' = IF IsPrivate(p) THEN private + 1 ELSE private
  /\ UNCHANGED <<runs, result>>

Next == FirewallStart \/ FirewallStop \/ AddRules \/ \E p \in Packets : Outgoing(p)

Spec == Init /\ [][Next]_vars

-----------------------------------------------------------------------------
Running == "main-table" \in DOMAIN ruleset

InChain == ruleset["main-table"]["in-chain"]

(* What the comments of Firewall::start say of a packet that comes in.     *)
Ssh(p) == p.l4 = IPPROTO.TCP /\ p.dport = 22

AllowedBeforeSsh(p) == (p.ct \div ESTABLISHED) % 2 = 1 \/ p.iifname = lo

Allowed(p) ==
  \/ AllowedBeforeSsh(p)
  \/ Ssh(p)
  \/ /\ p.l4 = IPPROTO.TCP /\ p.dport = 80
     /\ p.nfproto = NFPROTO_IPV4 /\ SubSeq(p.saddr, 1, 3) = <<192, 168, 1>>
  \/ p.l4 = IPPROTO.ICMP

(* "Allow some common-sense exceptions to inbound drop": whenever the      *)
(* table is there, the packets that come in are those that the comments    *)
(* allow, however often the firewall was started and stopped before, and   *)
(* whatever rules the other program has.  No packet meets the chain whose  *)
(* policy is to drop without the rules that make the exceptions.           *)
InboundAsCommented ==
  Running => \A p \in Packets : Passes(ruleset, "In", p) <=> Allowed(p)

(* "accept outbound and forward", and the policies of add-rules: no        *)
(* program here stops a packet that leaves or is forwarded.                *)
OutboundAccepted == \A p \in Packets, hook \in {"Out", "Forward"} : Passes(ruleset, hook, p)

(* The counter of add-rules "Shows how many packets have been evaluated    *)
(* against this expression": with the first rule, it is the number of      *)
(* packets that left for 10.1.0.0/24, and the copies that later runs add   *)
(* behind it stay at zero.                                                 *)
CounterExact ==
  "example-table" \in DOMAIN ruleset =>
    LET rules == ruleset["example-table"]["chain-for-outgoing-packets"].rules
    IN \A i \in DOMAIN rules : rules[i].counter = IF i = 1 THEN private ELSE 0

(* "If there is any table with name TABLE_NAME, remove it.": a stop that   *)
(* succeeds leaves no such table, also when there was none, and does not   *)
(* touch the chains, rules and counters of the other program.              *)
StopRemoves ==
  [][FirewallStop /\ result' = "Ok" =>
       /\ DOMAIN ruleset' = DOMAIN ruleset \ {"main-table"}
       /\ \A t \in DOMAIN ruleset' : ruleset'[t] = ruleset[t]]_vars

(* "Log all traffic not accepted to NF_LOG group 1": what the inbound      *)
(* chain logs of a packet.  The traffic not accepted is logged once for    *)
(* every time the firewall was started, except IGMP, which an earlier rule *)
(* drops; and no packet is logged with the prefix for ssh, since its log   *)
(* comes behind the verdict of the rule.                                   *)
LogsExact ==
  Running => \A p \in Packets :
    LET logs == RunChain(InChain, p).logs
    IN IF Allowed(p) \/ p.l4 = IPPROTO.IGMP THEN logs = << >>
       ELSE logs = [i \in 1..(Len(InChain.rules) \div Len(StartRules)) |-> Log(NetfilterGroup, NoLogPrefix)]

=============================================================================
