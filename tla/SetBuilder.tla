----------------------------- MODULE SetBuilder -----------------------------
(***************************************************************************)
(* A named set: SetBuilder of src/set.rs builds the set and the list of    *)
(* its elements, two objects with a message each, and a rule finds the     *)
(* keys with the expression of src/expr/lookup.rs.                         *)
(***************************************************************************)
EXTENDS Nftables

CONSTANTS Tables,       \* records [name, family], the name possibly Unnamed
          Unnamed,
          MaxKeys,      \* how many keys are added
          SetIds        \* the ids that the caller gives a set

VARIABLES phase,        \* "start", "building", "finished", "used" or the BuilderError
          table,        \* the table that new was called with
          key,          \* the type K of the keys
          set, list,    \* the two halves of the builder
          lookup        \* the expression that Lookup::new returned

setVars == <<phase, table, key, set, list, lookup>>

-----------------------------------------------------------------------------
(* data_type.rs: TYPE and LEN of the types that are keys, `[u8; 2]` for    *)
(* the arrays.                                                             *)
KeyTypes == {"Ipv4Addr", "Ipv6Addr", "u8x2"}

TYPE == [Ipv4Addr |-> 7, Ipv6Addr |-> 8, u8x2 |-> 5]

(* Mutant: the length of an IPv6 key is given in 16-bit groups.            *)
LENInGroups == [Ipv4Addr |-> 4, Ipv6Addr |-> 8, u8x2 |-> 2]

LEN == [Ipv4Addr |-> 4, Ipv6Addr |-> 16, u8x2 |-> 2]

(* The loads that put a value of the type into Reg1.  data() of an address *)
(* is its octets, of an array its bytes: what the packet holds there.      *)
LoadKey(type) ==
  CASE type = "Ipv4Addr" -> nfproto(Zeros(4)) \o <<load_ip(Zeros(4), TRUE)>>
    [] type = "Ipv6Addr" -> nfproto(Zeros(16)) \o <<load_ip(Zeros(16), TRUE)>>
    [] type = "u8x2" -> <<Meta("L4Proto"), Cmp("Eq", <<IPPROTO.TCP>>), Build("Tcp", "Dport")>>

KeysOf(type) ==
  CASE type = "Ipv4Addr" -> {p.saddr : p \in {q \in Packets : IsV4(q.saddr)}}
    [] type = "Ipv6Addr" -> {p.saddr : p \in {q \in Packets : ~IsV4(q.saddr)}}
    [] type = "u8x2" -> {BE16(p.dport) : p \in Packets}

-----------------------------------------------------------------------------
NoSet ==
  [family |-> "Unspec", table |-> Unnamed, name |-> Unnamed, keyType |-> 0, keyLen |-> 0, id |-> << >>]
NoList == [table |-> Unnamed, set |-> Unnamed, elements |-> << >>]

SetInit ==
  /\ phase = "start" /\ set = NoSet /\ list = NoList /\ lookup = << >>
  /\ table \in Tables /\ key \in KeyTypes

(* SetBuilder::new.  The family of the set is that of Set::default().      *)
SetBuilderNew ==
  /\ phase = "start"
  /\ IF table.name = Unnamed
     THEN phase' = "MissingTableName" /\ UNCHANGED <<set, list>>
     ELSE /\ phase' = "building"
          /\ set' = [NoSet EXCEPT !.keyType = TYPE[key], !.keyLen = LEN[key],
                                  !.table = table.name, !.name = "the set"]
          /\ list' = [table |-> table.name, set |-> "the set", elements |-> << >>]
  /\ UNCHANGED <<table, key, lookup>>

(* SetBuilder::add: every call adds an element, a key twice if it is added *)
(* twice.                                                                  *)
AddKey(k) ==
  /\ phase = "building" /\ Len(list.elements) < MaxKeys
  /\ list' = [list EXCEPT !.elements = Append(@, k)]
  /\ UNCHANGED <<phase, table, key, set, lookup>>

finish ==
  /\ phase = "building"
  /\ phase' = "finished"
  /\ UNCHANGED <<table, key, set, list, lookup>>

(* set_id() of the finished set, which the macro makes.                    *)
SetSetId(id) ==
  /\ phase = "finished"
  /\ set' = [set EXCEPT !.id = <<id>>]
  /\ UNCHANGED <<phase, table, key, list, lookup>>

(* Lookup::new of the finished set, or of a set that was never named.      *)
LookupNew(s) ==
  /\ phase = "finished"
  /\ IF s.name = Unnamed
     THEN phase' = "MissingSetName" /\ UNCHANGED lookup
     ELSE phase' = "used" /\ lookup' = <<Lookup(s.name, s.id)>>
  /\ UNCHANGED <<table, key, set, list>>

SetNext ==
  \/ SetBuilderNew
  \/ \E k \in KeysOf(key) : AddKey(k)
  \/ finish
  \/ \E id \in SetIds : SetSetId(id)
  \/ LookupNew(set) \/ LookupNew(NoSet)

SetSpec == SetInit /\ [][SetNext]_setVars

-----------------------------------------------------------------------------
(* The set of the kernel (external): the elements that the list names are  *)
(* elements of the set of that name in that table.                         *)
Elements ==
  [name \in {set.name} |-> IF list.table = set.table /\ list.set = name
                           THEN {list.elements[i] : i \in DOMAIN list.elements} ELSE {}]

(* The key length that the set is declared with is the length of every key *)
(* in the list: the two come from different constants of the key's type,   *)
(* and the kernel refuses an element of another length.                    *)
KeysFit ==
  \A i \in DOMAIN list.elements : Len(list.elements[i]) = set.keyLen

ValueOf(p) == IF key = "u8x2" THEN BE16(p.dport) ELSE p.saddr

Carries(p) ==
  CASE key = "Ipv4Addr" -> IsV4(p.saddr)
    [] key = "Ipv6Addr" -> ~IsV4(p.saddr)
    [] key = "u8x2" -> p.l4 = IPPROTO.TCP

(* A rule that loads the value and looks it up matches a packet exactly    *)
(* when the value was added to the builder: the lookup names the set and   *)
(* the register that the load fills.                                       *)
LookupFindsKeys ==
  phase = "used" => \A p \in Packets :
    Evaluate(LoadKey(key) \o lookup, p, Elements).verdict = "Continue"
      <=> Carries(p) /\ ValueOf(p) \in {list.elements[i] : i \in DOMAIN list.elements}

=============================================================================
