---------------------------- MODULE RuleBuilder ----------------------------
(***************************************************************************)
(* A rule under construction: Rule::new on a chain, then any sequence of   *)
(* the methods of src/rule_methods.rs, each of which consumes the rule and *)
(* returns it with more expressions, or returns a BuilderError.            *)
(***************************************************************************)
EXTENDS RuleMethods

CONSTANTS Chains,       \* records [table, name], each a name or NoName
          NoName,
          Ports, Ips, Nets, Names, Indexes, Sizes, LogPrefixes,   \* what the methods are called with
          MaxCalls      \* how many methods are called on one rule

VARIABLES rule,         \* the expressions of the rule
          calls,        \* the calls that built it, a ghost
          outcome       \* "start", then "Ok" or the BuilderError

vars == <<rule, calls, outcome>>

ASSUME ParametersAssumption ==
  /\ Ips \subseteq [1..4 -> Byte] \cup [1..16 -> Byte]
  /\ \A net \in Nets : /\ net.ip \in [1..4 -> Byte] \cup [1..16 -> Byte]
                        /\ net.prefix \in 0..(8 * Len(net.ip))
  /\ Names \subseteq Seq(Byte)
  /\ Ports \subseteq Word
  /\ Indexes \cup Sizes \cup LogPrefixes \subseteq Nat

Init == rule = << >> /\ calls = << >> /\ outcome = "start"

-----------------------------------------------------------------------------
(* Rule::new: a chain without a table or a name is refused.                *)
New(chain) ==
  /\ outcome = "start"
  /\ outcome' = IF NoName \in {chain.table, chain.name} THEN "MissingChainInformationError" ELSE "Ok"
  /\ UNCHANGED <<rule, calls>>

(* add_expr for each expression of a method.                               *)
Add(call, exprs) ==
  /\ outcome = "Ok" /\ Len(calls) < MaxCalls
  /\ rule' = rule \o exprs
  /\ calls' = Append(calls, call)
  /\ UNCHANGED outcome

(* A method that checks its arguments returns the error and the rule is    *)
(* gone.                                                                   *)
Try(failed, error, call, exprs) ==
  \/ ~failed /\ Add(call, exprs)
  \/ /\ failed /\ outcome = "Ok" /\ Len(calls) < MaxCalls
     /\ outcome' = error
     /\ UNCHANGED <<rule, calls>>

Icmp == Add(<<"icmp">>, icmp)
Icmpv6 == Add(<<"icmpv6">>, icmpv6)
Igmp == Add(<<"igmp">>, igmp)
Ip6in4 == Add(<<"ip6in4">>, ip6in4)
Sport(port, proto) == Add(<<"sport", port, proto>>, sport(port, proto))
Dport(port, proto) == Add(<<"dport", port, proto>>, dport(port, proto))
Protocol(proto) == Add(<<"protocol", proto>>, protocol(proto))
Established ==
  Try(~CompatibleLength(LE32(ESTABLISHED), BE32(0)), "IncompatibleLength", <<"established">>, established)
IfaceId(index) == Add(<<"iface_id", index>>, iface_id(index))
OfaceId(index) == Add(<<"oface_id", index>>, oface_id(index))
Iface(name) == Try(InterfaceNameTooLong(name), "InterfaceNameTooLong", <<"iface", name>>, iface(name))
Oface(name) == Try(InterfaceNameTooLong(name), "InterfaceNameTooLong", <<"oface", name>>, oface(name))
Saddr(ip) == Add(<<"saddr", ip>>, saddr(ip))
Daddr(ip) == Add(<<"daddr", ip>>, daddr(ip))
Snetwork(net) ==
  Try(~CompatibleLength(mask(net), no_xor(net)), "IncompatibleLength", <<"snetwork", net>>, snetwork(net))
Dnetwork(net) ==
  Try(~CompatibleLength(mask(net), no_xor(net)), "IncompatibleLength", <<"dnetwork", net>>, dnetwork(net))
Accept == Add(<<"accept">>, accept)
Drop == Add(<<"drop">>, drop)
Masq == Add(<<"masquerade">>, masquerade)
Dnat(dst, port) == Add(<<"dnat", dst, port>>, dnat(dst, port))
SetMss(mss) == Add(<<"set_mss", mss>>, set_mss(mss))
ClampMssToPmtu == Add(<<"clamp_mss_to_pmtu">>, clamp_mss_to_pmtu)
Syn == Try(~CompatibleLength(<<SYN>>, <<0>>), "IncompatibleLength", <<"syn">>, syn)

(* with_expr(Log::new(None, Some(prefix))?), the prefix by its length.     *)
WithLog(prefix) ==
  Try(prefix > MaxLogPrefix, "TooLongLogPrefix", <<"log", prefix>>, <<Log(NoLogGroup, prefix)>>)

Next ==
  \/ \E chain \in Chains : New(chain)
  \/ Icmp \/ Icmpv6 \/ Igmp \/ Ip6in4 \/ Established
  \/ \E proto \in Protocols : Protocol(proto)
  \/ \E port \in Ports, proto \in Protocols : Sport(port, proto) \/ Dport(port, proto)
  \/ \E index \in Indexes : IfaceId(index) \/ OfaceId(index)
  \/ \E name \in Names : Iface(name) \/ Oface(name)
  \/ \E ip \in Ips : Saddr(ip) \/ Daddr(ip)
  \/ \E net \in Nets : Snetwork(net) \/ Dnetwork(net)
  \/ Accept \/ Drop \/ Masq
  \/ \E dst \in Ips, port \in Ports \cup {NoPort} : Dnat(dst, port)
  \/ \E mss \in Sizes : SetMss(mss)
  \/ ClampMssToPmtu \/ Syn
  \/ \E prefix \in LogPrefixes : WithLog(prefix)

Spec == Init /\ [][Next]_vars

-----------------------------------------------------------------------------
(* Expression i of the sequence finds the n bytes that it reads in the     *)
(* register: the last expression before i that writes the register writes  *)
(* at least n bytes.                                                       *)
FedAt(exprs, i, register, n) ==
  \E j \in 1..(i - 1) :
    /\ Writes(exprs[j]) = register /\ WriteLen(exprs[j]) >= n
    /\ \A k \in (j + 1)..(i - 1) : Writes(exprs[k]) # register

Fed(exprs) ==
  \A i \in 1..Len(exprs) : \A r \in Reads(exprs[i]) : FedAt(exprs, i, r[1], r[2])

(* No expression of a rule reads register bytes that the rule has not      *)
(* loaded, whatever methods built it and in whatever order: every          *)
(* comparison, mask and statement of a method is as wide as what the       *)
(* method loads in front of it.  All methods share Reg1, and what an       *)
(* earlier method left there, or an earlier rule, must never be read.      *)
RegistersFed == Fed(rule)

(* Building fails for a chain that is not named, an interface name or a    *)
(* log prefix that does not fit, and for no other reason: the `?` behind   *)
(* Bitwise::new in established, syn, snetwork and dnetwork never returns.  *)
NoLengthMismatch == outcome # "IncompatibleLength"

=============================================================================
