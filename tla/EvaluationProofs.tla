-------------------------- MODULE EvaluationProofs --------------------------
(***************************************************************************)
(* What a packet meets in two places that the documentation of the rule    *)
(* methods does not settle: a lookup finds the keys that SetBuilder put    *)
(* into a set, and every call that RuleSemantics lists as a divergence is  *)
(* shown to be one by a packet.                                            *)
(***************************************************************************)
EXTENDS RuleSemantics, SetBuilder, RuleMethodsProofs

-----------------------------------------------------------------------------
(* A load and a lookup.                                                    *)

LEMMA LookupOutcome ==
  ASSUME NEW m, Going(m), NEW t, NEW name, NEW id, NEW p, NEW sets
  PROVE  Outcome(m, Step(Load(m, "Reg1", t), Lookup(name, id), p, sets), t \in sets[name])
<1> DEFINE n == Load(m, "Reg1", t)
<1>1. Going(n) /\ n.regs["Reg1"] = t /\ Same(m, n)
  BY LoadGoes DEF Registers
<1> HIDE DEF n
<1>2. Lookup(name, id).expr = "lookup" /\ Lookup(name, id).sreg = "Reg1" /\ Lookup(name, id).set = name
  BY SMTT(30) DEF Lookup
<1>3. Step(n, Lookup(name, id), p, sets) = IF t \in sets[name] THEN n ELSE Break(n)
  BY <1>1, <1>2, ZenonT(30) DEF Step, Going
<1>4. Becomes(Break(n), "Break", n.nat, n.mss, n.logs) /\ Break(n).counted = n.counted
  BY <1>1, ExceptBecomes, Zenon DEF Break, Going, IsMachine
<1>5. Outcome(m, IF t \in sets[name] THEN n ELSE Break(n), t \in sets[name])
  BY <1>1, <1>4, SMTT(30) DEF Outcome, Same, Going, Becomes
<1> QED
  BY <1>3, <1>5 DEF n

(* A test, a load and the lookup.                                          *)
LEMMA LoadAndLookup ==
  ASSUME NEW m, Going(m), NEW a, IsSequence(a), NEW e, NEW name, NEW id, NEW p, NEW sets, NEW t, NEW first,
         Outcome(m, RunFrom(m, a, p, sets), first),
         \A n : first /\ Going(n) => Step(n, e, p, sets) = Load(n, "Reg1", t)
  PROVE  Outcome(m, RunFrom(m, (a \o <<e>>) \o <<Lookup(name, id)>>, p, sets), first /\ t \in sets[name])
<1> DEFINE b == <<e>>
           c == <<Lookup(name, id)>>
           second == t \in sets[name]
<1>1. IsSequence(b) /\ IsSequence(c)
  BY ShortSequences, SMTT(30)
<1>2. ASSUME NEW n, first, Going(n) PROVE Outcome(n, RunFrom(n, b \o c, p, sets), second)
  <2>1. RunFrom(n, b \o c, p, sets) = RunFrom(RunFrom(n, b, p, sets), c, p, sets)
    BY <1>1, SequenceConcat
  <2>2. RunFrom(n, b, p, sets) = Load(n, "Reg1", t)
    BY <1>2, RunOne
  <2>3. RunFrom(Load(n, "Reg1", t), c, p, sets) = Step(Load(n, "Reg1", t), Lookup(name, id), p, sets)
    BY RunOne
  <2> QED
    BY <1>2, <2>1, <2>2, <2>3, LookupOutcome
<1> HIDE DEF b, c, second
<1>3. IsSequence(a \o b) /\ IsSequence(b \o c)
  BY <1>1, SequenceConcat
<1>4. RunFrom(m, (a \o b) \o c, p, sets) = RunFrom(RunFrom(RunFrom(m, a, p, sets), b, p, sets), c, p, sets)
  BY <1>1, <1>3, SequenceConcat
<1>5. RunFrom(m, a \o (b \o c), p, sets) = RunFrom(RunFrom(RunFrom(m, a, p, sets), b, p, sets), c, p, sets)
  BY <1>1, <1>3, SequenceConcat
<1>6. Outcome(m, RunFrom(m, a \o (b \o c), p, sets), first /\ second)
  BY <1>2, <1>3, OutcomeConcat
<1> QED
  BY <1>4, <1>5, <1>6 DEF b, c, second

-----------------------------------------------------------------------------
(* The loads of the three types of keys.                                   *)

LEMMA ZerosAddress ==
  /\ IsAddress(Zeros(4)) /\ IsV4(Zeros(4)) /\ Family(Zeros(4)) = NFPROTO_IPV4
  /\ IsAddress(Zeros(16)) /\ ~IsV4(Zeros(16)) /\ Family(Zeros(16)) = NFPROTO_IPV6
<1>1. Zeros(4) \in [1..4 -> Byte]
  BY DEF Zeros, Byte
<1>2. Zeros(16) \in [1..16 -> Byte]
  BY DEF Zeros, Byte
<1>3. 4 \in Nat /\ 16 \in Nat /\ 4 # 16
  OBVIOUS
<1>4. Len(Zeros(4)) = 4 /\ Len(Zeros(16)) = 16
  BY <1>3, ZerosSeq, Zenon
<1> QED
  BY <1>1, <1>2, <1>3, <1>4, Zenon DEF IsAddress, IsV4, Family

LEMMA PacketFamily ==
  ASSUME NEW p, IsPacket(p)
  PROVE  /\ p.nfproto = NFPROTO_IPV4 <=> IsV4(p.saddr)
         /\ p.nfproto = NFPROTO_IPV6 <=> ~IsV4(p.saddr)
<1>1. NFPROTO_IPV4 # NFPROTO_IPV6
  BY DEF NFPROTO_IPV4, NFPROTO_IPV6
<1>2. p.nfproto = Family(p.saddr)
  BY PacketAddresses
<1> QED
  BY <1>1, <1>2, Zenon DEF Family

(* The value that a packet has for a type, when it has one.                *)
Value(type, p) == IF type = "u8x2" THEN BE16(p.dport) ELSE p.saddr

Has(type, p) ==
  CASE type = "Ipv4Addr" -> IsV4(p.saddr)
    [] type = "Ipv6Addr" -> ~IsV4(p.saddr)
    [] type = "u8x2" -> p.l4 = IPPROTO.TCP

LookedUp(type, p, name, id, sets) ==
  Outcome(Start(p), Evaluate(LoadKey(type) \o <<Lookup(name, id)>>, p, sets), Has(type, p) /\ Value(type, p) \in sets[name])

LEMMA AddressLookup ==
  ASSUME NEW p, IsPacket(p), NEW name, NEW id, NEW sets
  PROVE  LookedUp("Ipv4Addr", p, name, id, sets) /\ LookedUp("Ipv6Addr", p, name, id, sets)
<1>1. ASSUME NEW ip, IsAddress(ip)
      PROVE  Outcome(Start(p), Evaluate((nfproto(ip) \o <<load_ip(ip, TRUE)>>) \o <<Lookup(name, id)>>, p, sets),
                     p.nfproto = Family(ip) /\ p.saddr \in sets[name])
  <2> DEFINE first == p.nfproto = Family(ip)
             a == nfproto(ip)
             e == load_ip(ip, TRUE)
  <2>1. Going(Start(p))
    BY StartGoes
  <2>2. Outcome(Start(p), RunFrom(Start(p), a, p, sets), first) /\ IsSequence(a)
    BY <2>1, FamilyOutcome
  <2>3. \A n : first /\ Going(n) => Step(n, e, p, sets) = Load(n, "Reg1", p.saddr)
    BY <1>1, AddressLoad, Zenon
  <2> HIDE DEF first, a, e
  <2>4. Outcome(Start(p), RunFrom(Start(p), (a \o <<e>>) \o <<Lookup(name, id)>>, p, sets), first /\ p.saddr \in sets[name])
    BY <2>1, <2>2, <2>3, LoadAndLookup, Zenon
  <2> QED
    BY <2>4 DEF Evaluate, first, a, e
<1>2. LookedUp("Ipv4Addr", p, name, id, sets)
  <2>1. Outcome(Start(p), Evaluate(LoadKey("Ipv4Addr") \o <<Lookup(name, id)>>, p, sets),
                p.nfproto = NFPROTO_IPV4 /\ p.saddr \in sets[name])
    BY <1>1, ZerosAddress, Zenon DEF LoadKey
  <2>2. Has("Ipv4Addr", p) <=> p.nfproto = NFPROTO_IPV4
    BY PacketFamily, Zenon DEF Has
  <2>3. Value("Ipv4Addr", p) = p.saddr
    BY DEF Value
  <2> QED
    BY <2>1, <2>2, <2>3 DEF LookedUp, Outcome
<1>3. LookedUp("Ipv6Addr", p, name, id, sets)
  <2>1. Outcome(Start(p), Evaluate(LoadKey("Ipv6Addr") \o <<Lookup(name, id)>>, p, sets),
                p.nfproto = NFPROTO_IPV6 /\ p.saddr \in sets[name])
    BY <1>1, ZerosAddress, Zenon DEF LoadKey
  <2>2. Has("Ipv6Addr", p) <=> p.nfproto = NFPROTO_IPV6
    BY PacketFamily, Zenon DEF Has
  <2>3. Value("Ipv6Addr", p) = p.saddr
    BY DEF Value
  <2> QED
    BY <2>1, <2>2, <2>3 DEF LookedUp, Outcome
<1> QED
  BY <1>2, <1>3, SMTT(30)

LEMMA PortLookup ==
  ASSUME NEW p, IsPacket(p), NEW name, NEW id, NEW sets
  PROVE  LookedUp("u8x2", p, name, id, sets)
<1> DEFINE first == p.l4 = IPPROTO.TCP
           a == l4proto(IPPROTO.TCP)
           e == Build("Tcp", "Dport")
<1>1. LoadKey("u8x2") = a \o <<e>>
  <2>1. LoadKey("u8x2") = <<Meta("L4Proto"), Cmp("Eq", <<IPPROTO.TCP>>), Build("Tcp", "Dport")>>
    BY Zenon DEF LoadKey
  <2>2. ASSUME NEW x, NEW y, NEW z, NEW t, t = <<x, y, z>> PROVE t = <<x, y>> \o <<z>>
    BY <2>2, SMTT(30)
  <2> QED
    BY <2>1, <2>2, Zenon DEF l4proto
<1>2. Going(Start(p))
  BY StartGoes
<1>3. Outcome(Start(p), RunFrom(Start(p), a, p, sets), first) /\ IsSequence(a)
  BY <1>2, L4protoOutcome
<1>4. ASSUME NEW n, first, Going(n) PROVE Step(n, e, p, sets) = Load(n, "Reg1", BE16(p.dport))
  <2>1. e = PayloadRaw("NFT_PAYLOAD_TRANSPORT_HEADER", 2, 2, "Reg1")
    BY Builds
  <2>2. LiesAt(TransportHeader(p), 3, 4, BE16(p.dport))
    BY <1>4, TcpHeader, Zenon
  <2>3. Loads(TransportHeader(p), 2, 2, BE16(p.dport)) /\ 2 \in Nat
    BY <2>2 DEF Loads
  <2> QED
    BY <1>4, <2>1, <2>3, TransportLoad
<1>5. Has("u8x2", p) <=> first
  BY Zenon DEF Has
<1>6. Value("u8x2", p) = BE16(p.dport)
  BY DEF Value
<1> HIDE DEF first, a, e
<1>7. Outcome(Start(p), RunFrom(Start(p), (a \o <<e>>) \o <<Lookup(name, id)>>, p, sets),
              first /\ BE16(p.dport) \in sets[name])
  BY <1>2, <1>3, <1>4, LoadAndLookup, Zenon
<1>8. Outcome(Start(p), Evaluate(LoadKey("u8x2") \o <<Lookup(name, id)>>, p, sets),
              first /\ BE16(p.dport) \in sets[name])
  BY <1>1, <1>7, Zenon DEF Evaluate
<1> QED
  BY <1>5, <1>6, <1>8 DEF LookedUp, Outcome

-----------------------------------------------------------------------------
(* The builder.                                                            *)

(* What new, add and finish leave in the two halves.                       *)
Built ==
  /\ set.keyLen = LEN[key] /\ list.elements \in Seq(KeysOf(key))
  /\ set.table = table.name /\ list.table = table.name /\ list.set = set.name

BInv ==
  /\ key \in KeyTypes
  /\ phase \in {"start", "MissingTableName"} => list.elements = << >>
  /\ phase \notin {"start", "MissingTableName"} => Built
  /\ phase = "used" => lookup = <<Lookup(set.name, set.id)>>

LEMMA InitBInv == SetInit => BInv
BY DEF SetInit, BInv, NoList

LEMMA NextBInv == BInv /\ [SetNext]_setVars => BInv'
<1> SUFFICES ASSUME BInv, [SetNext]_setVars PROVE BInv'
  OBVIOUS
<1> USE DEF BInv
<1>1. CASE SetBuilderNew
  <2>1. CASE table.name = Unnamed
    BY <1>1, <2>1 DEF SetBuilderNew
  <2>2. CASE table.name # Unnamed
    <3>1. /\ phase = "start" /\ phase' = "building" /\ key' = key /\ table' = table
          /\ set' = [NoSet EXCEPT !.keyType = TYPE[key], !.keyLen = LEN[key],
                                  !.table = table.name, !.name = "the set"]
          /\ list' = [table |-> table.name, set |-> "the set", elements |-> << >>]
      BY <1>1, <2>2, Zenon DEF SetBuilderNew
    <3>2. /\ set'.keyLen = LEN[key] /\ set'.table = table.name /\ set'.name = "the set"
          /\ list'.table = table.name /\ list'.set = "the set" /\ list'.elements = << >>
      BY <3>1, Zenon DEF NoSet
    <3>3. /\ (set.keyLen)' = LEN[key'] /\ (set.table)' = (table.name)' /\ (list.table)' = (table.name)'
          /\ (list.set)' = (set.name)'
      BY <3>1, <3>2, Zenon
    <3>4. << >> \in Seq(KeysOf(key'))
      OBVIOUS
    <3>5. Built'
      BY <3>2, <3>3, <3>4, Zenon DEF Built
    <3> QED
      BY <3>1, <3>5, Zenon
  <2> QED
    BY <2>1, <2>2
<1>2. ASSUME NEW k \in KeysOf(key), AddKey(k) PROVE BInv'
  <2>1. Built /\ phase = "building" /\ phase' = "building"
    BY <1>2 DEF AddKey
  <2> DEFINE elements == Append(list.elements, k)
  <2>2. elements \in Seq(KeysOf(key))
    BY <1>2, <2>1 DEF Built
  <2> HIDE DEF elements
  <2>3. list' = [list EXCEPT !.elements = elements] /\ UNCHANGED <<table, key, set, lookup>>
    BY <1>2 DEF AddKey, elements
  <2>4. list'.table = list.table /\ list'.set = list.set
    BY <2>3
  <2>5. list'.elements = elements
    BY <2>3
  <2>6. Built'
    BY <2>1, <2>2, <2>3, <2>4, <2>5 DEF Built
  <2> QED
    BY <2>1, <2>3, <2>6
<1>3. CASE finish
  BY <1>3 DEF finish, Built
<1>4. ASSUME NEW s, s = set \/ s = NoSet, LookupNew(s) PROVE BInv'
  BY <1>4 DEF LookupNew, NoSet, Built
<1>5. ASSUME NEW id \in SetIds, SetSetId(id) PROVE BInv'
  <2>1. phase = "finished" /\ set' = [set EXCEPT !.id = <<id>>] /\ UNCHANGED <<phase, table, key, list, lookup>>
    BY <1>5 DEF SetSetId
  <2>2. set'.keyLen = set.keyLen /\ set'.table = set.table /\ set'.name = set.name
    BY <2>1
  <2> QED
    BY <2>1, <2>2 DEF Built
<1>6. CASE UNCHANGED setVars
  BY <1>6 DEF setVars, Built
<1> QED
  BY <1>1, <1>2, <1>3, <1>4, <1>6, <1>5 DEF SetNext

(* The octets of a key.                                                    *)
LEMMA KeyLengths ==
  ASSUME NEW type \in KeyTypes, NEW k \in KeysOf(type)
  PROVE  Len(k) = LEN[type]
<1>1. CASE type = "Ipv4Addr"
  <2>1. KeysOf(type) = {p.saddr : p \in {q \in Packets : IsV4(q.saddr)}}
    BY <1>1, Zenon DEF KeysOf
  <2>2. IsV4(k)
    BY <2>1
  <2> QED
    BY <1>1, <2>2 DEF IsV4, LEN
<1>2. CASE type = "Ipv6Addr"
  <2>1. KeysOf(type) = {p.saddr : p \in {q \in Packets : ~IsV4(q.saddr)}}
    BY <1>2, Zenon DEF KeysOf
  <2>2. PICK p \in Packets : k = p.saddr /\ ~IsV4(p.saddr)
    BY <2>1
  <2>3. IsAddress(k) /\ ~IsV4(k)
    BY <2>2, PacketsAssumption, PacketAddresses
  <2>4. IsBytes(k, 16)
    BY <2>3, AddressBytes
  <2> QED
    BY <1>2, <2>4 DEF IsBytes, LEN
<1>3. CASE type = "u8x2"
  <2>1. KeysOf(type) = {BE16(p.dport) : p \in Packets}
    BY <1>3, Zenon DEF KeysOf
  <2>2. PICK p \in Packets : k = BE16(p.dport)
    BY <2>1
  <2> QED
    BY <1>3, <2>2 DEF BE16, LEN
<1> QED
  BY <1>1, <1>2, <1>3 DEF KeyTypes

LEMMA BInvFits == BInv => KeysFit
<1> SUFFICES ASSUME BInv, NEW i \in DOMAIN list.elements PROVE Len(list.elements[i]) = set.keyLen
  BY DEF KeysFit
<1>1. Built /\ key \in KeyTypes
  BY DEF BInv
<1>2. list.elements[i] \in KeysOf(key)
  BY <1>1 DEF Built
<1> QED
  BY <1>1, <1>2, KeyLengths DEF Built

(* KeysFit for any number of keys of any packets: TYPE and LEN of the key  *)
(* types of src/data_type.rs and what data() of a key returns.             *)
THEOREM SetKeysFit == SetSpec => []KeysFit
BY InitBInv, NextBInv, BInvFits, PTL DEF SetSpec

LEMMA BInvFinds == BInv => LookupFindsKeys
<1> SUFFICES ASSUME BInv, phase = "used", NEW p \in Packets
             PROVE  Evaluate(LoadKey(key) \o lookup, p, Elements).verdict = "Continue"
                      <=> Carries(p) /\ ValueOf(p) \in {list.elements[i] : i \in DOMAIN list.elements}
  BY DEF LookupFindsKeys
<1>1. Built /\ key \in KeyTypes /\ lookup = <<Lookup(set.name, set.id)>>
  BY DEF BInv
<1>2. Elements[set.name] = {list.elements[i] : i \in DOMAIN list.elements}
  BY <1>1 DEF Elements, Built
<1>3. IsPacket(p)
  BY PacketsAssumption
<1>4. LookedUp(key, p, set.name, set.id, Elements)
  BY <1>1, <1>3, AddressLookup, PortLookup DEF KeyTypes
<1>5. /\ Has(key, p) <=> Carries(p)
      /\ Value(key, p) = ValueOf(p)
  BY DEF Has, Carries, Value, ValueOf
<1> DEFINE r == Evaluate(LoadKey(key) \o <<Lookup(set.name, set.id)>>, p, Elements)
<1>6. r.verdict = "Continue" <=> Has(key, p) /\ Value(key, p) \in Elements[set.name]
  BY <1>4, Zenon DEF LookedUp, Outcome
<1> HIDE DEF r
<1> QED
  BY <1>1, <1>2, <1>5, <1>6, ZenonT(30) DEF r

(* LookupFindsKeys for any number of keys of any packets: the rule that    *)
(* loads a value and uses Lookup::new of src/expr/lookup.rs matches the    *)
(* packets whose value was added to the builder, and no others.            *)
THEOREM SetLookupFindsKeys == SetSpec => []LookupFindsKeys
BY InitBInv, NextBInv, BInvFinds, PTL DEF SetSpec

-----------------------------------------------------------------------------
(* Every divergence is shown by a packet.                                  *)

AllPackets ==
  {p \in [host : {"little", "big"}, nfproto : Byte, l4 : Byte, saddr : Seq(Byte), daddr : Seq(Byte),
          sport : Word, dport : Word, flags : Byte, body : Seq(Byte), mss : Seq(Byte), iif : Nat, oif : Nat,
          iifname : Seq(Byte), oifname : Seq(Byte), ct : Nat, pathMss : Word] : IsPacket(p)}

Differs(c, exprs, p) ==
  Decision(RunFrom(Start(p), exprs, p, NoSets)) # Decision(DocumentedStep(Start(p), c, p))

Shown(c, exprs) ==
  \A host \in {"little", "big"} :
    Divergent(c, host) \/ c[1] = "syn" => \E p \in AllPackets : p.host = host /\ Differs(c, exprs, p)

(* The packets that show them: zeros, but for a body of 2 wherever SYN is  *)
(* looked for, and an established connection.                              *)
Twos == [i \in 1..14 |-> 2]

Probe(host, family, address, l4, source, destination, index, name) ==
  [host |-> host, nfproto |-> family, l4 |-> l4, saddr |-> address, daddr |-> address,
   sport |-> source, dport |-> destination, flags |-> 0, body |-> Twos, mss |-> << >>, iif |-> index, oif |-> index,
   iifname |-> name, oifname |-> name, ct |-> ESTABLISHED, pathMss |-> 0]

Zeros4 == [i \in 1..4 |-> 0]
Zeros16 == [i \in 1..16 |-> 0]

LEMMA ProbeIsPacket ==
  ASSUME NEW host \in {"little", "big"}, NEW family, NEW address, NEW l4 \in Byte, NEW source \in Word,
         NEW destination \in Word, NEW index \in Nat, NEW name, IsInterfaceName(name),
         \/ family = NFPROTO_IPV4 /\ address = Zeros4
         \/ family = NFPROTO_IPV6 /\ address = Zeros16
  PROVE  Probe(host, family, address, l4, source, destination, index, name) \in AllPackets
<1> DEFINE p == Probe(host, family, address, l4, source, destination, index, name)
<1>1. /\ p.host = host /\ p.nfproto = family /\ p.l4 = l4 /\ p.saddr = address /\ p.daddr = address
      /\ p.sport = source /\ p.dport = destination /\ p.flags = 0 /\ p.body = Twos /\ p.mss = << >>
      /\ p.iif = index /\ p.oif = index /\ p.iifname = name /\ p.oifname = name /\ p.ct = ESTABLISHED
      /\ p.pathMss = 0
  BY DEF Probe
<1>2. 0 \in Byte /\ 2 \in Byte /\ 0 \in Word /\ ESTABLISHED \in Nat /\ NFPROTO_IPV4 \in Byte /\ NFPROTO_IPV6 \in Byte
  BY DEF Byte, Word, ESTABLISHED, NFPROTO_IPV4, NFPROTO_IPV6
<1>3. Twos \in Seq(Byte) /\ Zeros4 \in [1..4 -> Byte] /\ Zeros16 \in [1..16 -> Byte]
  <2>1. Twos \in [1..14 -> Byte] /\ 14 \in Nat
    BY <1>2 DEF Twos
  <2>2. Twos \in Seq(Byte)
    BY <2>1, OctetString, Zenon
  <2>3. Zeros4 \in [1..4 -> Byte] /\ Zeros16 \in [1..16 -> Byte]
    BY <1>2, Zenon DEF Zeros4, Zeros16
  <2> QED
    BY <2>2, <2>3
<1>4. address \in Seq(Byte) /\ family \in Byte
  <2>1. 4 \in Nat /\ 16 \in Nat
    OBVIOUS
  <2>2. Zeros4 \in Seq(Byte)
    BY <1>3, <2>1, OctetString, Zenon
  <2>3. Zeros16 \in Seq(Byte)
    BY <1>3, <2>1, OctetString, Zenon
  <2> QED
    BY <1>2, <2>2, <2>3, Zenon
<1>5. name \in Seq(Byte) /\ << >> \in Seq(Byte)
  BY DEF IsInterfaceName
<1>6. IsPacket(p)
  <2> HIDE DEF p
  <2>1. HasAddresses(p)
    BY <1>1, <1>3, Zenon DEF HasAddresses
  <2>2. HasNumbers(p) /\ HasMss(p)
    BY <1>1, <1>2, Zenon DEF HasNumbers, HasMss
  <2> QED
    BY <1>1, <1>3, <2>1, <2>2, Zenon DEF IsPacket
<1> QED
  BY <1>2, <1>3, <1>4, <1>5, <1>6 DEF AllPackets, Probe

LEMMA ProbeV4 ==
  ASSUME NEW host \in {"little", "big"}, NEW l4 \in Byte, NEW source \in Word, NEW destination \in Word,
         NEW index \in Nat, NEW name, IsInterfaceName(name)
  PROVE  Probe(host, NFPROTO_IPV4, Zeros4, l4, source, destination, index, name) \in AllPackets
<1>1. PICK family, address : family = NFPROTO_IPV4 /\ address = Zeros4
  OBVIOUS
<1>2. Probe(host, family, address, l4, source, destination, index, name) \in AllPackets
  BY <1>1, ProbeIsPacket
<1> QED
  BY <1>1, <1>2

LEMMA ProbeV6 ==
  ASSUME NEW host \in {"little", "big"}, NEW l4 \in Byte, NEW source \in Word, NEW destination \in Word,
         NEW index \in Nat, NEW name, IsInterfaceName(name)
  PROVE  Probe(host, NFPROTO_IPV6, Zeros16, l4, source, destination, index, name) \in AllPackets
<1>1. PICK family, address : family = NFPROTO_IPV6 /\ address = Zeros16
  OBVIOUS
<1>2. Probe(host, family, address, l4, source, destination, index, name) \in AllPackets
  BY <1>1, ProbeIsPacket
<1> QED
  BY <1>1, <1>2

LEMMA NamelessProbe == IsInterfaceName(<< >>)
BY DEF IsInterfaceName, IFNAMSIZ

LEMMA ZeroNumbers == 0 \in Byte /\ 0 \in Word /\ 0 \in Nat
BY DEF Byte, Word

Statements == {"accept", "drop", "masquerade", "dnat", "set_mss", "clamp_mss_to_pmtu", "log"}

(* Different verdicts are different decisions.                             *)
LEMMA DecisionVerdict ==
  ASSUME NEW m, NEW r, m.verdict # r.verdict PROVE Decision(m) # Decision(r)
BY SMTT(30) DEF Decision

(* A method that matches, on a packet where it does not match what its     *)
(* documentation says.                                                     *)
LEMMA MatchDiffers ==
  ASSUME NEW c, c[1] \notin Statements, NEW exprs, NEW p, NEW matches,
         Outcome(Start(p), RunFrom(Start(p), exprs, p, NoSets), matches), ~(matches <=> Matches(c, p))
  PROVE  Differs(c, exprs, p)
<1> DEFINE r == Start(p)
           n == RunFrom(r, exprs, p, NoSets)
           d == DocumentedStep(r, c, p)
<1>1. Going(r)
  BY StartGoes
<1>2. d = IF Matches(c, p) THEN r ELSE Break(r)
  <2>1. r.verdict = "Continue"
    BY <1>1 DEF Going
  <2>2. /\ c[1] # "accept" /\ c[1] # "drop" /\ c[1] # "masquerade" /\ c[1] # "dnat" /\ c[1] # "set_mss"
        /\ c[1] # "clamp_mss_to_pmtu" /\ c[1] # "log"
    BY DEF Statements
  <2> HIDE DEF r
  <2> QED
    BY <2>1, <2>2, Zenon DEF DocumentedStep
<1>3. Matches(c, p) => d.verdict = "Continue"
  BY <1>1, <1>2, Zenon DEF Going
<1>4. ~Matches(c, p) => d.verdict = "Break"
  <2>1. Becomes(Break(r), "Break", r.nat, r.mss, r.logs)
    BY <1>1, ExceptBecomes, Zenon DEF Break, Going
  <2> QED
    BY <1>2, <2>1, Zenon DEF Becomes
<1>5. /\ matches => n.verdict = "Continue"
      /\ ~matches => n.verdict = "Break"
  <2>1. Outcome(r, n, matches) /\ r.verdict = "Continue"
    BY <1>1 DEF Going
  <2> HIDE DEF r, n
  <2> QED
    BY <2>1 DEF Outcome, Same
<1>6. n.verdict # d.verdict
  <2> HIDE DEF n, d
  <2> QED
    BY <1>3, <1>4, <1>5, Zenon
<1> HIDE DEF n, d
<1>7. Decision(n) # Decision(d)
  BY <1>6, DecisionVerdict
<1> QED
  BY <1>7, Zenon DEF Differs, n, d, r

(* sport: from `port`, to another one.                                     *)
LEMMA SportShown ==
  ASSUME NEW port \in Word, NEW proto \in Protocols
  PROVE  Shown(<<"sport", port, proto>>, sport(port, proto))
<1> DEFINE c == <<"sport", port, proto>>
           other == IF port = 0 THEN 1 ELSE 0
<1>1. c[1] = "sport" /\ c[1] \notin Statements /\ c[2] = port /\ c[3] = proto
  BY DEF Statements
<1>2. other \in Word /\ other # port /\ port \in Nat /\ IPPROTO[proto] \in Byte
  BY DEF Word, Protocols, IPPROTO, Byte
<1>3. sport(port, proto) = dport(port, proto)
  BY Zenon DEF sport, dport
<1> HIDE DEF c, other
<1>4. ASSUME NEW host \in {"little", "big"}
      PROVE  \E p \in AllPackets : p.host = host /\ Differs(c, sport(port, proto), p)
  <2> DEFINE p == Probe(host, NFPROTO_IPV4, Zeros4, IPPROTO[proto], port, other, 0, << >>)
  <2>1. p \in AllPackets
    BY <1>2, NamelessProbe, ZeroNumbers, ProbeV4, ZenonT(30)
  <2>2. p.host = host /\ p.l4 = IPPROTO[proto] /\ p.sport = port /\ p.dport = other
    BY DEF Probe
  <2> HIDE DEF p
  <2>3. IsPacket(p) /\ Going(Start(p))
    BY <2>1, StartGoes DEF AllPackets
  <2>4. Outcome(Start(p), RunFrom(Start(p), dport(port, proto), p, NoSets), p.l4 = IPPROTO[proto] /\ p.dport = port)
    BY <1>2, <2>3, DportOutcome, Zenon
  <2>5. Matches(c, p)
    BY <1>1, <2>2, Zenon DEF Matches
  <2>6. Differs(c, sport(port, proto), p)
    BY <1>1, <1>2, <1>3, <2>2, <2>4, <2>5, MatchDiffers, ZenonT(30)
  <2> QED
    BY <2>1, <2>2, <2>6
<1>5. Shown(c, sport(port, proto))
  BY <1>4 DEF Shown
<1> QED
  BY <1>5 DEF c

(* An index that reads differently in the two byte orders.                 *)
LEMMA IfaceIdShown ==
  ASSUME NEW index \in Nat
  PROVE  /\ Shown(<<"iface_id", index>>, iface_id(index))
         /\ Shown(<<"oface_id", index>>, oface_id(index))
<1> DEFINE c == <<"iface_id", index>>
           d == <<"oface_id", index>>
<1>1. /\ c[1] = "iface_id" /\ c[1] \notin Statements /\ c[2] = index
      /\ d[1] = "oface_id" /\ d[1] \notin Statements /\ d[2] = index
  BY DEF Statements
<1> HIDE DEF c, d
<1>2. ASSUME NEW host \in {"little", "big"}, Divergent(c, host) \/ c[1] = "syn" \/ Divergent(d, host) \/ d[1] = "syn"
      PROVE  \E p \in AllPackets : p.host = host /\ Differs(c, iface_id(index), p) /\ Differs(d, oface_id(index), p)
  <2>0. host = "little" /\ BE32(index) # LE32(index)
    BY <1>1, <1>2 DEF Divergent
  <2> DEFINE p == Probe(host, NFPROTO_IPV4, Zeros4, 0, 0, 0, index, << >>)
  <2>1. p \in AllPackets
    BY NamelessProbe, ZeroNumbers, ProbeV4, ZenonT(30)
  <2>2. p.host = host /\ p.iif = index /\ p.oif = index
    BY DEF Probe
  <2> HIDE DEF p
  <2>3. IsPacket(p) /\ Going(Start(p))
    BY <2>1, StartGoes DEF AllPackets
  <2>4. Host32(p, p.iif) # BE32(index) /\ Host32(p, p.oif) # BE32(index)
    BY <2>0, <2>2, Zenon DEF Host32
  <2>5. Matches(c, p) /\ Matches(d, p)
    BY <1>1, <2>2, Zenon DEF Matches
  <2>6. Differs(c, iface_id(index), p)
    BY <1>1, <2>3, <2>4, <2>5, IfaceIdReads, MatchDiffers, ZenonT(30)
  <2>7. Differs(d, oface_id(index), p)
    BY <1>1, <2>3, <2>4, <2>5, IfaceIdReads, MatchDiffers, ZenonT(30)
  <2> QED
    BY <2>1, <2>2, <2>6, <2>7
<1>3. Shown(c, iface_id(index)) /\ Shown(d, oface_id(index))
  BY <1>2, ZenonT(30) DEF Shown
<1> QED
  BY <1>3 DEF c, d

(* A name that ends in NUL bytes: the interface with the name in front of  *)
(* them.                                                                   *)
LEMMA NameInFront ==
  ASSUME NEW name \in Seq(Byte), Len(name) < IFNAMSIZ, EndsInNul(name)
  PROVE  \E a : IsInterfaceName(a) /\ NulsBehind(a, name) /\ a # name
<1> DEFINE l == Len(name)
<1>1. l \in Nat /\ DOMAIN name = 1..l /\ (\A j \in 1..l : name[j] \in Byte) /\ l < 16
  BY SequenceLen DEF IFNAMSIZ
<1>2. PICK k \in 1..l : \A j \in 1..l : name[j] = 0 <=> j >= k
  BY <1>1, Zenon DEF EndsInNul
<1> DEFINE a == [i \in 1..(k - 1) |-> name[i]]
<1> HIDE DEF l
<1>3. k - 1 \in Nat /\ k - 1 < l /\ \A i \in 1..(k - 1) : i \in 1..l /\ ~(i >= k)
  BY <1>1
<1>4. a \in [1..(k - 1) -> Byte \ {0}]
  BY <1>1, <1>2, <1>3
<1>5. a \in Seq(Byte \ {0})
  BY <1>3, <1>4, SequencesAre
<1>6. Len(a) = k - 1
  BY <1>3, <1>5, SequenceLen
<1>7. \A i \in 1..(k - 1) : a[i] = name[i]
  OBVIOUS
<1> HIDE DEF a
<1>8. IsInterfaceName(a)
  BY <1>1, <1>3, <1>5, <1>6 DEF IsInterfaceName, IFNAMSIZ
<1>9. NulsBehind(a, name)
  <2>1. ASSUME NEW i \in 1..l PROVE name[i] = IF i <= k - 1 THEN a[i] ELSE 0
    <3>1. CASE i <= k - 1
      BY <1>3, <1>7, <3>1
    <3>2. CASE ~(i <= k - 1)
      BY <1>1, <1>2, <3>2
    <3> QED
      BY <3>1, <3>2
  <2>2. k - 1 <= l
    BY <1>1, <1>3
  <2> QED
    BY <1>6, <2>1, <2>2 DEF NulsBehind, l
<1>10. a # name
  BY <1>1, <1>3, <1>6 DEF l
<1> QED
  BY <1>8, <1>9, <1>10

LEMMA IfaceShown ==
  ASSUME NEW name \in Seq(Byte), ~InterfaceNameTooLong(name)
  PROVE  /\ Shown(<<"iface", name>>, iface(name))
         /\ Shown(<<"oface", name>>, oface(name))
<1> DEFINE c == <<"iface", name>>
           d == <<"oface", name>>
<1>1. /\ c[1] = "iface" /\ c[1] \notin Statements /\ c[2] = name
      /\ d[1] = "oface" /\ d[1] \notin Statements /\ d[2] = name
  BY DEF Statements
<1> HIDE DEF c, d
<1>2. ASSUME NEW host \in {"little", "big"}, Divergent(c, host) \/ c[1] = "syn" \/ Divergent(d, host) \/ d[1] = "syn"
      PROVE  \E p \in AllPackets : p.host = host /\ Differs(c, iface(name), p) /\ Differs(d, oface(name), p)
  <2>0. EndsInNul(name) /\ Len(name) < IFNAMSIZ
    <3>1. EndsInNul(name)
      BY <1>1, <1>2, Zenon DEF Divergent
    <3>2. Len(name) < IFNAMSIZ
      BY SequenceLen DEF InterfaceNameTooLong, IFNAMSIZ
    <3> QED
      BY <3>1, <3>2, Zenon
  <2>1. PICK a : IsInterfaceName(a) /\ NulsBehind(a, name) /\ a # name
    BY <2>0, NameInFront
  <2> DEFINE p == Probe(host, NFPROTO_IPV4, Zeros4, 0, 0, 0, 0, a)
  <2>2. p \in AllPackets
    BY <2>1, ZeroNumbers, ProbeV4, ZenonT(30)
  <2>3. p.host = host /\ p.iifname = a /\ p.oifname = a
    BY DEF Probe
  <2> HIDE DEF p
  <2>4. IsPacket(p) /\ Going(Start(p))
    BY <2>2, StartGoes DEF AllPackets
  <2>5. ~Matches(c, p) /\ ~Matches(d, p)
    BY <1>1, <2>1, <2>3, Zenon DEF Matches
  <2>6. Differs(c, iface(name), p)
    BY <1>1, <2>0, <2>1, <2>3, <2>4, <2>5, IfaceReads, MatchDiffers, ZenonT(30)
  <2>7. Differs(d, oface(name), p)
    BY <1>1, <2>0, <2>1, <2>3, <2>4, <2>5, IfaceReads, MatchDiffers, ZenonT(30)
  <2> QED
    BY <2>2, <2>3, <2>6, <2>7
<1>3. Shown(c, iface(name)) /\ Shown(d, oface(name))
  BY <1>2, Zenon DEF Shown
<1> QED
  BY <1>3 DEF c, d

(* established on a big-endian host: the register holds 00 00 00 02, and   *)
(* the mask is 02 00 00 00.                                                *)
LEMMA EstablishedShown == Shown(<<"established">>, established)
<1> DEFINE c == <<"established">>
           zero == BE32(0)
           flag == LE32(ESTABLISHED)
           t == BE32(ESTABLISHED)
<1>1. c[1] = "established" /\ c[1] \notin Statements
  BY DEF Statements
<1>2. zero = <<0, 0, 0, 0>> /\ flag = <<2, 0, 0, 0>> /\ t = <<0, 0, 0, 2>>
  BY DEF BE32, LE32, ESTABLISHED
<1>3. IsRow(t, 4) /\ IsRow(zero, 4) /\ IsRow(flag, 4)
  BY <1>2 DEF IsRow
<1>4. Masked(t, flag, zero, zero, 4)
  <2>1. BitAnd(0, 2) = 0
    BY AndTwo DEF Bit, Byte
  <2>2. BitXor(0, 0) = 0
    BY XorZero DEF Byte
  <2>3. /\ t[1] = 0 /\ flag[1] = 2 /\ flag[2] = 0 /\ flag[3] = 0 /\ flag[4] = 0
        /\ \A i \in {1, 2, 3, 4} : zero[i] = 0
    BY <1>2
  <2> HIDE DEF t, flag, zero
  <2>4. \A i \in {1, 2, 3, 4} : BitXor(BitAnd(t[i], flag[i]), zero[i]) = zero[i]
    BY <2>1, <2>2, <2>3, AndZero
  <2>5. 1..4 = {1, 2, 3, 4}
    OBVIOUS
  <2> QED
    BY <2>4, <2>5, Zenon DEF Masked
<1>5. established = <<Conntrack("State"), Bitwise(flag, zero), Cmp("Neq", zero)>>
  BY DEF established
<1> HIDE DEF c, t, flag, zero
<1>6. ASSUME NEW host \in {"little", "big"}, Divergent(c, host) \/ c[1] = "syn"
      PROVE  \E p \in AllPackets : p.host = host /\ Differs(c, established, p)
  <2>0. host = "big" /\ host # "little"
    BY <1>1, <1>6 DEF Divergent
  <2> DEFINE p == Probe(host, NFPROTO_IPV4, Zeros4, 0, 0, 0, 0, << >>)
  <2>1. p \in AllPackets
    BY NamelessProbe, ZeroNumbers, ProbeV4, ZenonT(30)
  <2>2. p.host = host /\ p.ct = ESTABLISHED
    BY DEF Probe
  <2> HIDE DEF p
  <2>3. Going(Start(p)) /\ Host32(p, p.ct) = t
    <3>1. Going(Start(p))
      BY StartGoes, Zenon
    <3>2. Host32(p, p.ct) = t
      BY <2>0, <2>2, Zenon DEF Host32, t
    <3> QED
      BY <3>1, <3>2, Zenon
  <2>4. Step(Start(p), Conntrack("State"), p, NoSets) = Load(Start(p), "Reg1", t)
    <3> DEFINE e == Conntrack("State")
    <3>1. e.expr = "ct" /\ e.dreg = "Reg1"
      BY ZenonT(30) DEF Conntrack
    <3> HIDE DEF e
    <3>2. Step(Start(p), e, p, NoSets) = Load(Start(p), "Reg1", t)
      BY <2>3, <3>1, Zenon DEF Step, Going
    <3> QED
      BY <3>2, Zenon DEF e
  <2>5. Outcome(Start(p), RunFrom(Start(p), established, p, NoSets), ~Masked(t, flag, zero, zero, 4))
    BY <1>3, <1>5, <2>3, <2>4, MaskNeq
  <2>6. Matches(c, p)
    <3>1. HasBit(p.ct, ESTABLISHED)
      BY <2>2 DEF HasBit, ESTABLISHED
    <3> QED
      BY <1>1, <3>1, Zenon DEF Matches
  <2>7. Differs(c, established, p)
    BY <1>1, <1>4, <2>5, <2>6, MatchDiffers, ZenonT(30)
  <2> QED
    BY <2>1, <2>2, <2>7
<1>7. Shown(c, established)
  BY <1>6, Zenon DEF Shown
<1> QED
  BY <1>7 DEF c

(* syn: a packet that is not TCP, with the bit where a TCP header has SYN. *)
LEMMA SynShown == Shown(<<"syn">>, syn)
<1> DEFINE c == <<"syn">>
           e == PayloadRaw("NFT_PAYLOAD_TRANSPORT_HEADER", 13, 1, "Reg1")
<1>1. c[1] = "syn" /\ c[1] \notin Statements
  BY DEF Statements
<1>2. IsRow(<<2>>, 1) /\ IsRow(<<SYN>>, 1) /\ IsRow(<<0>>, 1)
  BY DEF IsRow
<1>3. ~Masked(<<2>>, <<SYN>>, <<0>>, <<0>>, 1)
  <2>1. BitAnd(2, 2) = 2
    BY AndTwo DEF Bit, Byte
  <2>2. BitXor(2, 0) = 2
    BY XorZero DEF Byte
  <2> QED
    BY <2>1, <2>2 DEF Masked, SYN
<1>4. syn = <<e, Bitwise(<<SYN>>, <<0>>), Cmp("Neq", <<0>>)>>
  BY DEF syn
<1>5. Loads(Twos, 13, 1, <<2>>)
  <2>1. Twos \in Seq(Nat) /\ Len(Twos) = 14
    <3>1. Twos \in [1..14 -> Byte] /\ 14 \in Nat
      BY DEF Twos, Byte
    <3> QED
      BY <3>1, OctetString, Zenon
  <2>2. SubSeq(Twos, 14, 14) = <<2>>
    <3>1. Twos[14] = 2 /\ 14 \in Nat
      BY DEF Twos
    <3> HIDE DEF Twos
    <3>2. SubSeq(Twos, 14, 14) = [k \in 1..(14 - 14 + 1) |-> Twos[k + 14 - 1]]
      BY <2>1, <3>1, SubSeqIs
    <3>3. 1..(14 - 14 + 1) = 1..1 /\ \A k \in 1..1 : k + 14 - 1 = 14
      OBVIOUS
    <3>4. SubSeq(Twos, 14, 14) = [k \in 1..1 |-> 2]
      BY <3>1, <3>2, <3>3
    <3>5. [k \in 1..1 |-> 2] = <<2>>
      OBVIOUS
    <3> QED
      BY <3>4, <3>5, Zenon
  <2> QED
    BY <2>1, <2>2 DEF Loads, LiesAt
<1> HIDE DEF c, e
<1>6. ASSUME NEW host \in {"little", "big"}
      PROVE  \E p \in AllPackets : p.host = host /\ Differs(c, syn, p)
  <2> DEFINE p == Probe(host, NFPROTO_IPV4, Zeros4, 0, 0, 0, 0, << >>)
  <2>1. p \in AllPackets
    BY NamelessProbe, ZeroNumbers, ProbeV4, ZenonT(30)
  <2>2. p.host = host /\ p.l4 = 0 /\ p.body = Twos
    BY DEF Probe
  <2> HIDE DEF p
  <2>3. p.l4 # IPPROTO.TCP /\ p.l4 # IPPROTO.UDP
    BY <2>2 DEF IPPROTO
  <2>4. TransportHeader(p) = Twos /\ Going(Start(p)) /\ 13 \in Nat /\ 1 \in Nat
    BY <2>2, <2>3, StartGoes DEF TransportHeader
  <2>5. Step(Start(p), e, p, NoSets) = Load(Start(p), "Reg1", <<2>>)
    BY <1>5, <2>4, TransportLoad DEF e
  <2>6. Outcome(Start(p), RunFrom(Start(p), syn, p, NoSets), ~Masked(<<2>>, <<SYN>>, <<0>>, <<0>>, 1))
    BY <1>2, <1>4, <2>4, <2>5, MaskNeq
  <2>7. ~Matches(c, p)
    BY <1>1, <2>3, Zenon DEF Matches
  <2>8. Differs(c, syn, p)
    BY <1>1, <1>3, <2>6, <2>7, MatchDiffers, ZenonT(30)
  <2> QED
    BY <2>1, <2>2, <2>8, ZenonT(30)
<1>7. Shown(c, syn)
  BY <1>6, Zenon DEF Shown
<1> QED
  BY <1>7 DEF c

(* dnat, which is declared as IPv4, lets a packet of IPv6 pass.            *)
LEMMA DnatPasses ==
  ASSUME NEW m, Going(m), NEW dst, NEW port, NEW p, p.nfproto # NFPROTO_IPV4, NEW sets
  PROVE  RunFrom(m, dnat(dst, port), p, sets).verdict = "Continue"
<1> DEFINE a == Load(m, "Reg1", dst)
           b == Load(a, "Reg2", BE16(port))
<1>1. "Reg1" \in Registers /\ "Reg2" \in Registers
  BY DEF Registers
<1>2. Going(a) /\ Step(m, ImmediateData(dst, "Reg1"), p, sets) = a
  BY <1>1, LoadGoes, ImmediateLoad
<1> HIDE DEF a
<1>3. Going(b) /\ Step(a, ImmediateData(BE16(port), "Reg2"), p, sets) = b
  BY <1>1, <1>2, LoadGoes, ImmediateLoad
<1> HIDE DEF b
<1>4. ASSUME NEW n, Going(n), NEW r PROVE Step(n, Nat4("Reg1", r), p, sets) = n
  <2> DEFINE e == Nat4("Reg1", r)
  <2>1. e.expr = "nat"
    BY ZenonT(30) DEF Nat4
  <2> HIDE DEF e
  <2>2. Step(n, e, p, sets) = n
    BY <1>4, <2>1, Zenon DEF Step, RunNat, Going
  <2> QED
    BY <2>2, Zenon DEF e
<1>5. CASE port = NoPort
  <2>1. dnat(dst, port) = <<ImmediateData(dst, "Reg1"), Nat4("Reg1", "none")>>
    BY <1>5 DEF dnat
  <2>2. RunFrom(m, dnat(dst, port), p, sets) = a
    <3>1. Step(a, Nat4("Reg1", "none"), p, sets) = a
      BY <1>2, <1>4, Zenon
    <3> QED
      BY <1>2, <2>1, <3>1, RunTwo, SMTT(30)
  <2> QED
    BY <1>2, <2>2 DEF Going
<1>6. CASE port # NoPort
  <2>1. dnat(dst, port) = <<ImmediateData(dst, "Reg1"), ImmediateData(BE16(port), "Reg2"), Nat4("Reg1", "Reg2")>>
    BY <1>6 DEF dnat
  <2>2. RunFrom(m, dnat(dst, port), p, sets) = b
    <3>1. Step(b, Nat4("Reg1", "Reg2"), p, sets) = b
      BY <1>3, <1>4, Zenon
    <3> QED
      BY <1>2, <1>3, <2>1, <3>1, RunThree, SMTT(30)
  <2> QED
    BY <1>3, <2>2 DEF Going
<1> QED
  BY <1>5, <1>6

LEMMA DnatShown ==
  ASSUME NEW dst, IsAddress(dst), NEW port
  PROVE  Shown(<<"dnat", dst, port>>, dnat(dst, port))
<1> DEFINE c == <<"dnat", dst, port>>
<1>1. c[1] = "dnat" /\ c[2] = dst /\ c[3] = port
  OBVIOUS
<1> HIDE DEF c
<1>2. ASSUME NEW host \in {"little", "big"}, Divergent(c, host) \/ c[1] = "syn"
      PROVE  \E p \in AllPackets : p.host = host /\ Differs(c, dnat(dst, port), p)
  <2>0. Len(dst) = 16
    <3>1. ~IsV4(dst)
      BY <1>1, <1>2 DEF Divergent
    <3> QED
      BY <3>1, AddressBytes DEF IsBytes
  <2> DEFINE p == Probe(host, NFPROTO_IPV6, Zeros16, 0, 0, 0, 0, << >>)
  <2>1. p \in AllPackets
    BY NamelessProbe, ZeroNumbers, ProbeV6, ZenonT(30)
  <2>2. p.host = host /\ p.nfproto = NFPROTO_IPV6 /\ p.daddr = Zeros16
    BY DEF Probe
  <2> HIDE DEF p
  <2>3. Len(Zeros16) = 16
    <3>1. Zeros16 \in [1..16 -> Byte] /\ 16 \in Nat
      BY DEF Zeros16, Byte
    <3> QED
      BY <3>1, OctetString, Zenon
  <2> DEFINE r == Start(p)
             n == RunFrom(r, dnat(dst, port), p, NoSets)
             d == DocumentedStep(r, c, p)
  <2>4. Going(r)
    BY StartGoes
  <2>5. d.verdict = "Accept"
    <3>1. Len(c[2]) = Len(p.daddr)
      BY <1>1, <2>0, <2>2, <2>3, Zenon
    <3> DEFINE nat == <<c[2], IF c[3] = NoPort THEN << >> ELSE BE16(c[3])>>
    <3> HIDE DEF r
    <3>2. r.verdict = "Continue" /\ IsMachine(r)
      BY <2>4, Zenon DEF Going
    <3>3. d = [r EXCEPT !.verdict = "Accept", !.nat = nat]
      BY <1>1, <3>1, <3>2, ZenonT(30) DEF DocumentedStep
    <3> HIDE DEF nat
    <3>4. Becomes([r EXCEPT !.verdict = "Accept", !.nat = nat], "Accept", nat, r.mss, r.logs)
      BY <3>2, ExceptBecomes, ZenonT(30)
    <3> QED
      BY <3>3, <3>4, Zenon DEF Becomes
  <2>6. n.verdict = "Continue"
    <3>1. p.nfproto # NFPROTO_IPV4
      BY <2>2 DEF NFPROTO_IPV4, NFPROTO_IPV6
    <3> HIDE DEF r
    <3> QED
      BY <2>4, <3>1, DnatPasses, ZenonT(30)
  <2> HIDE DEF n, d
  <2>7. Decision(n) # Decision(d)
    BY <2>5, <2>6, DecisionVerdict
  <2>8. Differs(c, dnat(dst, port), p)
    BY <2>7, Zenon DEF Differs, n, d, r
  <2> QED
    BY <2>1, <2>2, <2>8
<1>3. Shown(c, dnat(dst, port))
  BY <1>2, Zenon DEF Shown
<1> QED
  BY <1>3 DEF c

(* The other methods are not listed.                                       *)
LEMMA NothingToShow ==
  ASSUME NEW c, NEW exprs,
         c[1] \notin {"sport", "iface_id", "oface_id", "established", "iface", "oface", "dnat", "syn"}
  PROVE  Shown(c, exprs)
BY DEF Shown, Divergent

-----------------------------------------------------------------------------
(* A rule of one call.                                                     *)

(* What a step does to the rule: nothing, or it appends what one call      *)
(* appends, which alone would show what it is listed for.                  *)
Moves ==
  \/ UNCHANGED <<rule, calls>>
  \/ \E c, exprs : Add(c, exprs) /\ Shown(c, << >> \o exprs)

LEMMA AddQuiet ==
  ASSUME NEW c, NEW exprs, Add(c, exprs),
         c[1] \notin {"sport", "iface_id", "oface_id", "established", "iface", "oface", "dnat", "syn"}
  PROVE  Moves
BY NothingToShow, Zenon DEF Moves

LEMMA AddShown ==
  ASSUME NEW c, NEW exprs, Add(c, exprs), IsSequence(exprs), Shown(c, exprs)
  PROVE  Moves
<1>1. << >> \o exprs = exprs
  BY DEF IsSequence
<1> QED
  BY <1>1, Zenon DEF Moves

LEMMA TryAdds ==
  ASSUME NEW failed, NEW error, NEW c, NEW exprs, Try(failed, error, c, exprs)
  PROVE  (~failed /\ Add(c, exprs)) \/ UNCHANGED <<rule, calls>>
BY DEF Try

(* The methods that are not listed, and those that are.                    *)
LEMMA QuietMoves ==
  ASSUME \/ Icmp \/ Icmpv6 \/ Igmp \/ Ip6in4
         \/ \E proto \in Protocols : Protocol(proto) \/ \E port \in Ports : Dport(port, proto)
         \/ \E ip \in Ips : Saddr(ip) \/ Daddr(ip)
         \/ \E net \in Nets : Snetwork(net) \/ Dnetwork(net)
         \/ Accept \/ Drop \/ Masq
         \/ \E mss \in Sizes : SetMss(mss)
         \/ ClampMssToPmtu
         \/ \E prefix \in LogPrefixes : WithLog(prefix)
  PROVE  Moves
<1>1. CASE Icmp \/ Icmpv6 \/ Igmp \/ Ip6in4
  <2>1. \E name \in {"icmp", "icmpv6", "igmp", "ip6in4"} : \E exprs : Add(<<name>>, exprs)
    BY <1>1, Zenon DEF Icmp, Icmpv6, Igmp, Ip6in4
  <2>2. \A name : <<name>>[1] = name
    OBVIOUS
  <2> QED
    BY <2>1, <2>2, AddQuiet, Zenon
<1>2. CASE Accept \/ Drop \/ Masq \/ ClampMssToPmtu
  <2>1. \E name \in {"accept", "drop", "masquerade", "clamp_mss_to_pmtu"} : \E exprs : Add(<<name>>, exprs)
    BY <1>2, Zenon DEF Accept, Drop, Masq, ClampMssToPmtu
  <2>2. \A name : <<name>>[1] = name
    OBVIOUS
  <2> QED
    BY <2>1, <2>2, AddQuiet, Zenon
<1>3. ASSUME NEW proto \in Protocols, Protocol(proto) \/ \E port \in Ports : Dport(port, proto)
      PROVE  Moves
  <2>1. \A port : <<"protocol", proto>>[1] = "protocol" /\ <<"dport", port, proto>>[1] = "dport"
    OBVIOUS
  <2> QED
    BY <1>3, <2>1, AddQuiet, Zenon DEF Protocol, Dport
<1>4. ASSUME NEW ip \in Ips, Saddr(ip) \/ Daddr(ip) PROVE Moves
  <2>1. <<"saddr", ip>>[1] = "saddr" /\ <<"daddr", ip>>[1] = "daddr"
    OBVIOUS
  <2> QED
    BY <1>4, <2>1, AddQuiet, Zenon DEF Saddr, Daddr
<1>5. ASSUME NEW net \in Nets, Snetwork(net) \/ Dnetwork(net) PROVE Moves
  <2>1. <<"snetwork", net>>[1] = "snetwork" /\ <<"dnetwork", net>>[1] = "dnetwork"
    OBVIOUS
  <2>2. \/ Add(<<"snetwork", net>>, snetwork(net)) \/ Add(<<"dnetwork", net>>, dnetwork(net))
        \/ UNCHANGED <<rule, calls>>
    BY <1>5, TryAdds, Zenon DEF Snetwork, Dnetwork
  <2> QED
    BY <2>1, <2>2, AddQuiet, Zenon DEF Moves
<1>6. ASSUME NEW mss \in Sizes, SetMss(mss) PROVE Moves
  <2>1. <<"set_mss", mss>>[1] = "set_mss"
    OBVIOUS
  <2> QED
    BY <1>6, <2>1, AddQuiet, Zenon DEF SetMss
<1>7. ASSUME NEW prefix \in LogPrefixes, WithLog(prefix) PROVE Moves
  <2>1. \A x : <<"log", x>>[1] = "log"
    OBVIOUS
  <2>2. (\E x, exprs : Add(<<"log", x>>, exprs)) \/ UNCHANGED <<rule, calls>>
    BY <1>7, TryAdds, Zenon DEF WithLog
  <2> QED
    BY <2>1, <2>2, AddQuiet, Zenon DEF Moves
<1> QED
  BY <1>1, <1>2, <1>3, <1>4, <1>5, <1>6, <1>7, Zenon

LEMMA ListedMoves ==
  ASSUME \/ Established \/ Syn
         \/ \E port \in Ports, proto \in Protocols : Sport(port, proto)
         \/ \E index \in Indexes : IfaceId(index) \/ OfaceId(index)
         \/ \E name \in Names : Iface(name) \/ Oface(name)
         \/ \E dst \in Ips, port \in Ports \cup {NoPort} : Dnat(dst, port)
  PROVE  Moves
<1>1. CASE Established \/ Syn
  <2>1. IsSequence(established) /\ IsSequence(syn)
    BY ShortSequences, Zenon DEF established, syn
  <2>2. Add(<<"established">>, established) \/ Add(<<"syn">>, syn) \/ UNCHANGED <<rule, calls>>
    BY <1>1, TryAdds, Zenon DEF Established, Syn
  <2> QED
    BY <2>1, <2>2, EstablishedShown, SynShown, AddShown, Zenon DEF Moves
<1>2. ASSUME NEW port \in Ports, NEW proto \in Protocols, Sport(port, proto) PROVE Moves
  <2>1. port \in Word
    BY ParametersAssumption, Zenon
  <2>2. IsSequence(sport(port, proto))
    BY ShortSequences, SequenceConcat, Zenon DEF sport, match_port, protocol, l4proto
  <2> QED
    BY <1>2, <2>1, <2>2, SportShown, AddShown, Zenon DEF Sport
<1>3. ASSUME NEW index \in Indexes, IfaceId(index) \/ OfaceId(index) PROVE Moves
  <2>1. index \in Nat
    BY ParametersAssumption, Zenon
  <2>2. IsSequence(iface_id(index)) /\ IsSequence(oface_id(index))
    BY ShortSequences, Zenon DEF iface_id, oface_id
  <2> QED
    BY <1>3, <2>1, <2>2, IfaceIdShown, AddShown, Zenon DEF IfaceId, OfaceId
<1>4. ASSUME NEW name \in Names, Iface(name) \/ Oface(name) PROVE Moves
  <2>1. name \in Seq(Byte)
    BY ParametersAssumption, Zenon
  <2>2. IsSequence(iface(name)) /\ IsSequence(oface(name))
    BY ShortSequences, Zenon DEF iface, oface
  <2>3. \/ ~InterfaceNameTooLong(name) /\ (Add(<<"iface", name>>, iface(name)) \/ Add(<<"oface", name>>, oface(name)))
        \/ UNCHANGED <<rule, calls>>
    BY <1>4, TryAdds, Zenon DEF Iface, Oface
  <2> QED
    BY <2>1, <2>2, <2>3, IfaceShown, AddShown, Zenon DEF Moves
<1>5. ASSUME NEW dst \in Ips, NEW port \in Ports \cup {NoPort}, Dnat(dst, port) PROVE Moves
  <2>1. IsAddress(dst)
    BY ParametersAssumption, Zenon DEF IsAddress
  <2>2. IsSequence(dnat(dst, port))
    BY ShortSequences, Zenon DEF dnat
  <2> QED
    BY <1>5, <2>1, <2>2, DnatShown, AddShown, Zenon DEF Dnat
<1> QED
  BY <1>1, <1>2, <1>3, <1>4, <1>5, Zenon

LEMMA NextMoves == [Next]_vars => Moves
<1> SUFFICES ASSUME [Next]_vars PROVE Moves
  OBVIOUS
<1>1. CASE UNCHANGED vars
  BY <1>1 DEF vars, Moves
<1>2. ASSUME NEW chain \in Chains, New(chain) PROVE Moves
  BY <1>2 DEF New, Moves
<1> QED
  BY <1>1, <1>2, QuietMoves, ListedMoves, ZenonT(30) DEF Next

(* The inductive invariant: a rule of one call shows what the call is      *)
(* listed for.                                                             *)
FirstShown ==
  /\ IsSequence(calls)
  /\ calls = << >> => rule = << >>
  /\ Len(calls) = 1 => Shown(calls[1], rule)

LEMMA InitFirstShown == Init => FirstShown
<1> SUFFICES ASSUME Init PROVE FirstShown
  OBVIOUS
<1>1. rule = << >> /\ calls = << >>
  BY DEF Init
<1>2. << >> \in Seq({}) /\ Len(<< >>) # 1
  OBVIOUS
<1> QED
  BY <1>1, <1>2, Zenon DEF FirstShown, IsSequence

LEMMA NextFirstShown == FirstShown /\ [Next]_vars => FirstShown'
<1> SUFFICES ASSUME FirstShown, [Next]_vars PROVE FirstShown'
  OBVIOUS
<1>1. CASE UNCHANGED <<rule, calls>>
  <2>1. rule' = rule /\ calls' = calls
    BY <1>1
  <2> QED
    BY <2>1, Zenon DEF FirstShown
<1>2. ASSUME NEW c, NEW exprs, Add(c, exprs), Shown(c, << >> \o exprs)
      PROVE  FirstShown'
  <2>1. rule' = rule \o exprs /\ calls' = Append(calls, c)
    BY <1>2, Zenon DEF Add
  <2>2. PICK S : calls \in Seq(S) /\ c \in S
    <3>1. PICK T : calls \in Seq(T)
      BY Zenon DEF FirstShown, IsSequence
    <3>2. calls \in Seq(T \cup {c})
      BY <3>1
    <3> QED
      BY <3>2
  <2>3. /\ Append(calls, c) \in Seq(S) /\ Append(calls, c) # << >>
        /\ Len(Append(calls, c)) = 1 => calls = << >> /\ Append(calls, c)[1] = c
    BY <2>2
  <2>4. calls = << >> => Shown(c, rule \o exprs)
    BY <1>2, Zenon DEF FirstShown
  <2>5. /\ calls' \in Seq(S) /\ calls' # << >>
        /\ Len(calls') = 1 => Shown(calls'[1], rule')
    BY <2>1, <2>3, <2>4, Zenon
  <2>6. /\ IsSequence(calls') /\ (calls' = << >> => rule' = << >>)
        /\ (Len(calls') = 1 => Shown(calls'[1], rule'))
    BY <2>5, Zenon DEF IsSequence
  <2> QED
    BY <2>6, Zenon DEF FirstShown
<1> QED
  BY <1>1, <1>2, NextMoves, ZenonT(30) DEF Moves

(* The documentation of a rule of one call is that of the call.            *)
LEMMA DocumentedOne ==
  ASSUME Len(calls) = 1, NEW p
  PROVE  Documented(p) = DocumentedStep(Start(p), calls[1], p)
<1> DEFINE one == DocumentedStep(Start(p), calls[1], p)
           IsState(f) == f = [i \in 0..1 |-> IF i = 0 THEN Start(p) ELSE DocumentedStep(f[i - 1], calls[i], p)]
           state == CHOOSE f : IsState(f)
<1>1. \E f : IsState(f)
  <2> DEFINE f == [i \in 0..1 |-> IF i = 0 THEN Start(p) ELSE one]
  <2>1. f[0] = Start(p) /\ \A i \in 0..1 : i # 0 => i = 1 /\ i - 1 = 0
    OBVIOUS
  <2>2. f = [i \in 0..1 |-> IF i = 0 THEN Start(p) ELSE DocumentedStep(f[i - 1], calls[i], p)]
    <3>1. ASSUME NEW i \in 0..1
          PROVE  (IF i = 0 THEN Start(p) ELSE one) =
                   IF i = 0 THEN Start(p) ELSE DocumentedStep(f[i - 1], calls[i], p)
      BY <2>1, Zenon
    <3> QED
      BY <3>1, Zenon
  <2> QED
    BY <2>2, Zenon
<1>2. IsState(state)
  BY <1>1, Zenon
<1>3. Documented(p) = state[1]
  BY Zenon DEF Documented
<1> HIDE DEF state
<1>4. state[0] = Start(p) /\ state[1] = DocumentedStep(state[0], calls[1], p)
  <2>1. 0 \in 0..1 /\ 1 \in 0..1 /\ 1 # 0 /\ 1 - 1 = 0
    OBVIOUS
  <2> QED
    BY <1>2, <2>1, Zenon
<1> QED
  BY <1>3, <1>4, Zenon

LEMMA FirstShownReal ==
  ASSUME AllPackets \subseteq Packets, FirstShown
  PROVE  DivergencesAreReal
<1> SUFFICES ASSUME Len(calls) = 1, NEW host \in {"little", "big"},
                    NEW p \in Packets, p.host = host, Diverges(1, p)
             PROVE  \E q \in Packets : q.host = host /\ ~Agrees(q)
  BY DEF DivergencesAreReal
<1>1. Divergent(calls[1], host) \/ calls[1][1] = "syn"
  BY Zenon DEF Diverges
<1>2. PICK q \in AllPackets : q.host = host /\ Differs(calls[1], rule, q)
  BY <1>1, ZenonT(30) DEF FirstShown, Shown
<1>3. Documented(q) = DocumentedStep(Start(q), calls[1], q)
  BY DocumentedOne
<1> QED
  BY <1>2, <1>3, Zenon DEF Agrees, Differs, Evaluate

(* DivergencesAreReal for every argument, when every packet there is may   *)
(* arrive: whatever sport, iface_id, oface_id, established, iface, oface,  *)
(* dnat and syn of src/rule_methods.rs are called with, a call listed      *)
(* under Diverges builds a rule that decides about some packet other than  *)
(* its doc comment says.  RuleMatchesDocumentation is the converse.        *)
THEOREM DivergencesShown ==
  ASSUME AllPackets \subseteq Packets
  PROVE  Spec => []DivergencesAreReal
<1>1. Init => FirstShown
  BY InitFirstShown
<1>2. FirstShown /\ [Next]_vars => FirstShown'
  BY NextFirstShown
<1>3. FirstShown => DivergencesAreReal
  BY FirstShownReal
<1> QED
  BY <1>1, <1>2, <1>3, PTL DEF Spec

=============================================================================
