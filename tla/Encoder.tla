------------------------------ MODULE Encoder ------------------------------
(***************************************************************************)
(* The writing half of the attribute codec: write_attribute                *)
(* (src/parser.rs) with the get_size and write_payload that the            *)
(* nfnetlink_struct macro (macros/src/lib.rs) derives for every struct and *)
(* that src/parser_impls.rs defines for integers, strings, byte vectors    *)
(* and lists.                                                              *)
(*                                                                         *)
(* A value is a tree.  A leaf is an integer, enum, string or byte vector,  *)
(* known by its size in bytes and an opaque content; `nul` counts a        *)
(* trailing NUL byte.  A struct is the sequence of its present fields, a   *)
(* list the sequence of its elements.  The wire is a byte buffer: a length *)
(* and, at each offset where something starts, an attribute header or the  *)
(* content of a leaf.                                                      *)
(*                                                                         *)
(* The state machine is the promise of the writer: whatever tree is put on *)
(* the wire, the wire holds its encoding.  Codec adds where the trees come *)
(* from and how they are read back.                                        *)
(***************************************************************************)
EXTENDS Integers, Sequences

CONSTANT MaxDepth      \* how deep the fields and elements of a value nest

ASSUME DepthAssumption == MaxDepth \in Nat \ {0}

VARIABLES sent,        \* the tree last put on the wire, a ghost
          wire         \* the bytes

encoderVars == <<sent, wire>>

-----------------------------------------------------------------------------
(***************************************************************************)
(* Values.                                                                 *)
(***************************************************************************)

Leaf(ty, size, val) == [k |-> "leaf", ty |-> ty, size |-> size, nul |-> 0, val |-> val]
Struct(ty) == [k |-> "struct", ty |-> ty, fields |-> << >>]
List(ty, items) == [k |-> "list", ty |-> ty, items |-> items]

Leaves == [k : {"leaf"}, ty : STRING, size : Nat, nul : {0, 1}, val : STRING]
Structs(vals) == [k : {"struct"}, ty : STRING, fields : Seq(STRING \X vals)]
Lists(vals) == [k : {"list"}, ty : STRING, items : Seq(vals)]

(* The values that nest at most d deep.                                    *)
Values[d \in 0 .. MaxDepth] ==
  IF d = 0 THEN Leaves
  ELSE Leaves \cup Structs(Values[d - 1]) \cup Lists(Values[d - 1])

-----------------------------------------------------------------------------
(***************************************************************************)
(* Sizes.                                                                  *)
(***************************************************************************)

NLA_HDRLEN == 4
NlaLenMod == 65536        \* nla_len is a u16
NFTA_LIST_ELEM == "NFTA_LIST_ELEM"

Pad(size) == ((size + 3) \div 4) * 4

(* The attributes that a struct or a list consists of, <<type, value>>.    *)
Attributes(v) ==
  IF v.k = "struct" THEN v.fields ELSE [i \in DOMAIN v.items |-> <<NFTA_LIST_ELEM, v.items[i]>>]

(* Mutant: get_size() forgets the alignment of a field.                    *)
FieldSizeUnpadded(size) == NLA_HDRLEN + size

(* What get_size() counts for a present field with size bytes of payload.  *)
FieldSize(size) == NLA_HDRLEN + Pad(size)

(* How far write_payload() moves on behind such a field.                   *)
FieldAdvance(size) == NLA_HDRLEN + Pad(size)

(* What an element adds to its list, in both: not padded.                  *)
ElementSize(size) == NLA_HDRLEN + size

Counted(v, size) == IF v.k = "struct" THEN FieldSize(size) ELSE ElementSize(size)
Advance(v, size) == IF v.k = "struct" THEN FieldAdvance(size) ELSE ElementSize(size)

(* NfNetlinkAttribute::get_size, from the sizes of what v consists of.     *)
SizeOver(v, sizes) ==
  IF v.k = "leaf" THEN v.size
  ELSE LET attr == Attributes(v)
           size[i \in 0 .. Len(attr)] ==
             IF i = 0 THEN 0 ELSE size[i - 1] + Counted(v, sizes[attr[i][2]])
       IN size[Len(attr)]

(* The sizes of the values that nest at most d deep.                       *)
SizeTo[d \in 0 .. MaxDepth] ==
  IF d = 0 THEN [v \in Leaves |-> v.size]
  ELSE [v \in Values[d] |-> SizeOver(v, SizeTo[d - 1])]

GetSize(v) == SizeTo[MaxDepth][v]

-----------------------------------------------------------------------------
(***************************************************************************)
(* Writing.  What is written into a slice is a set of <<offset, content>>. *)
(***************************************************************************)

(* NF_ACCEPT and NF_DROP for a policy (`*self as i32`), the content itself *)
(* for any other leaf.                                                     *)
Content(v) ==
  CASE v.ty = "ChainPolicy" -> (CASE v.val = "Accept" -> "NF_ACCEPT" [] v.val = "Drop" -> "NF_DROP")
    [] OTHER -> v.val

(* Mutant: nla_len counts the padding.                                     *)
NlattrPadded(ty, size) ==
  [k |-> "nlattr", type |-> ty, nlaLen |-> (NLA_HDRLEN + Pad(size)) % NlaLenMod]

(* struct nlattr: nla_len is the u16 of the header and unpadded payload.   *)
Nlattr(ty, size) ==
  [k |-> "nlattr", type |-> ty, nlaLen |-> (NLA_HDRLEN + size) % NlaLenMod]

(* The slice buf[n..], as seen from buf.                                   *)
Shift(cells, n) == {<<c[1] + n, c[2]>> : c \in cells}

(* write_attribute: the header, then the payload behind it.                *)
WriteAttribute(ty, size, payload) ==
  {<<0, Nlattr(ty, size)>>} \cup Shift(payload, NLA_HDRLEN)

(* write_payload of a leaf copies its content.                             *)
LeafPayload(v) ==
  IF v.size = 0 THEN {}
  ELSE {<<0, [k |-> "leaf", size |-> v.size, nul |-> v.nul, val |-> Content(v)]>>}

(* NfNetlinkAttribute::write_payload, from the sizes and payloads of what  *)
(* v consists of: one attribute behind the other.                          *)
PayloadOver(v, sizes, payloads) ==
  IF v.k = "leaf" THEN LeafPayload(v)
  ELSE LET attr == Attributes(v)
           written[i \in 0 .. Len(attr)] ==
             IF i = 0 THEN [at |-> 0, cells |-> {}]
             ELSE LET w == written[i - 1]
                      val == attr[i][2]
                  IN [at |-> w.at + Advance(v, sizes[val]),
                      cells |-> w.cells \cup
                        Shift(WriteAttribute(attr[i][1], sizes[val], payloads[val]), w.at)]
       IN written[Len(attr)].cells

(* The payloads of the values that nest at most d deep.                    *)
PayloadTo[d \in 0 .. MaxDepth] ==
  IF d = 0 THEN [v \in Leaves |-> LeafPayload(v)]
  ELSE [v \in Values[d] |-> PayloadOver(v, SizeTo[d - 1], PayloadTo[d - 1])]

(* add_data_zeroed(get_size()) and write_payload into it                   *)
(* (nlmsg.rs, write_payload of an object).                                 *)
Encode(v) ==
  LET cells == PayloadTo[MaxDepth][v]
  IN [len |-> GetSize(v),
      mem |-> [o \in {c[1] : c \in cells} |-> (CHOOSE c \in cells : c[1] = o)[2]]]

-----------------------------------------------------------------------------
(***************************************************************************)
(* The promise of the writer.                                              *)
(***************************************************************************)

(* The objects: the fields of a struct.                                    *)
Trees == {v \in Values[MaxDepth] : v.k = "struct"}

EncoderInit ==
  /\ sent = Struct("Table")
  /\ wire = [len |-> 0, mem |-> << >>]

EncoderNext ==
  /\ sent' \in Trees
  /\ wire' = Encode(sent')

(* Nothing comes on the wire but the encoding of a tree, written into a    *)
(* buffer of exactly the size that get_size() gives (add_or_remove).       *)
EncoderSpec == EncoderInit /\ [][EncoderNext]_encoderVars

-----------------------------------------------------------------------------
(***************************************************************************)
(* Properties.                                                             *)
(***************************************************************************)

(* The bytes that a header or the content of a leaf takes.                 *)
Width(cell) == IF cell.k = "nlattr" THEN NLA_HDRLEN ELSE cell.size

(* The writer stays inside the get_size() bytes reserved for the object,   *)
(* and nothing it writes overlaps anything else it writes: write_payload   *)
(* advances by what get_size announced for each field and element.         *)
WritesInside ==
  LET End(o) == o + Width(wire.mem[o])
  IN \A o \in DOMAIN wire.mem :
       /\ End(o) <= wire.len
       /\ \A p \in DOMAIN wire.mem : o < p => End(o) <= p

(* The length of an attribute can be written into its header.              *)
FitsField(val) == NLA_HDRLEN + GetSize(val) < NlaLenMod

(* Where the attribute of each field of the object ends.                   *)
FieldEnd(v) ==
  LET end[i \in 0 .. Len(v.fields)] ==
        IF i = 0 THEN 0 ELSE end[i - 1] + FieldAdvance(GetSize(v.fields[i][2]))
  IN end

(* "nla_len contains the header size + the unpadded attribute length"      *)
(* (write_attribute): true of the attributes of the object itself exactly  *)
(* as long as the sum fits the u16 that it is cast to.                     *)
HeaderLengths ==
  \A i \in DOMAIN sent.fields :
    LET val == sent.fields[i][2]
    IN wire.mem[FieldEnd(sent)[i - 1]].nlaLen = NLA_HDRLEN + GetSize(val) <=> FitsField(val)

=============================================================================
