------------------------------- MODULE Codec -------------------------------
(***************************************************************************)
(* The attribute codec: how an object of the crate becomes the attributes  *)
(* of a netlink message and back.  The values and the writer are those of  *)
(* Encoder; the reader is read_attributes (src/parser.rs) with the         *)
(* decode_attribute that the nfnetlink_struct macro (macros/src/lib.rs)    *)
(* derives for every struct, the list codec of src/parser_impls.rs and the *)
(* expression decoder of src/expr/mod.rs.                                  *)
(***************************************************************************)
EXTENDS Objects, Encoder, SequencesExt

CONSTANTS Inputs,      \* the objects that are written
          Foreign      \* objects that only a newer kernel can hold

VARIABLES obj,         \* the object in memory
          result,      \* what deserialize returned
          stage        \* "built", "written" or "read"

vars == <<obj, sent, wire, result, stage>>

-----------------------------------------------------------------------------
(***************************************************************************)
(* Structs: the fields that are present, and the setters.                  *)
(***************************************************************************)

Present(s) == {s.fields[i][1] : i \in DOMAIN s.fields}
Field(s, attr) == s.fields[CHOOSE i \in DOMAIN s.fields : s.fields[i][1] = attr][2]

(* The derived setter set_x / with_x: an Option field becomes Some(val);   *)
(* fields stay in the order of declaration.                                *)
With(s, attr, val) ==
  LET declared == [i \in DOMAIN Schema[s.ty] |-> Schema[s.ty][i][1]]
      kept == SelectSeq(declared, LAMBDA a : a = attr \/ a \in Present(s))
  IN [s EXCEPT !.fields =
        [i \in DOMAIN kept |-> <<kept[i], IF kept[i] = attr THEN val ELSE Field(s, kept[i])>>]]

-----------------------------------------------------------------------------
(***************************************************************************)
(* Reading.  The result is Ok(value), or Err(e) with a DecodeError, or     *)
(* Err("panic") where an index leaves its slice.  Bytes that no writer put *)
(* there as what the reader takes them for are Err("misread").             *)
(***************************************************************************)

Ok(val) == [ok |-> TRUE, val |-> val]
Err(e) == [ok |-> FALSE, err |-> e]

(* `let (val, remaining) = deserialize(buf)?; remaining.len() != 0` for a  *)
(* fixed-size integer in a slice of n bytes.                               *)
FixedSizeError(ty, n) ==
  IF n < FixedSize[ty] THEN "panic" ELSE IF n > FixedSize[ty] THEN "InvalidDataSize" ELSE "none"

(* ChainPolicy::deserialize: both known policies become Accept.            *)
ReadPolicy(content) ==
  CASE content = "NF_ACCEPT" -> Ok(Leaf("ChainPolicy", 4, "Accept"))
    [] content = "NF_DROP" -> Ok(Leaf("ChainPolicy", 4, "Accept"))
    [] OTHER -> Err("UnknownChainPolicy")

(* String::deserialize drops a trailing NUL byte.                          *)
ReadString(cell) == [size |-> cell.size - cell.nul, val |-> cell.val]

(* deserialize of a leaf type from n bytes at offset at.                   *)
ReadLeaf(ty, mem, at, n) ==
  LET cell == IF n = 0 THEN [k |-> "leaf", size |-> 0, nul |-> 0, val |-> ""]
              ELSE IF at \in DOMAIN mem THEN mem[at] ELSE [k |-> "none"]
      str == ReadString(cell)
      sizeError == IF ty \in DOMAIN FixedSize THEN FixedSizeError(ty, n) ELSE "none"
  IN IF sizeError # "none" THEN Err(sizeError)
     ELSE IF cell.k # "leaf" \/ cell.size # n THEN Err("misread")
     ELSE IF ty = "ChainPolicy" THEN ReadPolicy(cell.val)
     ELSE IF ty \in DOMAIN Variants /\ cell.val \notin Variants[ty] THEN Err("Unknown" \o ty)
     ELSE IF ty \in {"String", "ChainType"} THEN Ok(Leaf(ty, str.size, str.val))
     ELSE Ok(Leaf(ty, n, cell.val))

RECURSIVE Deserialize(_, _, _, _)

(* Mutant: data without a name is taken for that of an unknown expression. *)
AttributeTypeUnnamed(res, attr) ==
  LET declared == {i \in DOMAIN Schema[res.ty] : Schema[res.ty][i][1] = attr}
  IN IF declared = {} THEN "unsupported"
     ELSE IF attr # "NFTA_EXPR_DATA" THEN Schema[res.ty][CHOOSE i \in declared : TRUE][2]
     ELSE IF "NFTA_EXPR_NAME" \notin Present(res) THEN "ExpressionRaw"
     ELSE LET name == Field(res, "NFTA_EXPR_NAME").val
          IN IF name \in DOMAIN ExpressionType THEN ExpressionType[name] ELSE "ExpressionRaw"

(* The type that decode_attribute reads the attribute as.  The data of an  *)
(* expression is typed by its name, which must have been read before; a    *)
(* name the crate does not know gives an ExpressionRaw.                    *)
AttributeType(res, attr) ==
  LET declared == {i \in DOMAIN Schema[res.ty] : Schema[res.ty][i][1] = attr}
  IN IF declared = {} THEN "unsupported"
     ELSE IF attr # "NFTA_EXPR_DATA" THEN Schema[res.ty][CHOOSE i \in declared : TRUE][2]
     ELSE IF "NFTA_EXPR_NAME" \notin Present(res) THEN "unnamed"
     ELSE LET name == Field(res, "NFTA_EXPR_NAME").val
          IN IF name \in DOMAIN ExpressionType THEN ExpressionType[name] ELSE "ExpressionRaw"

(* AttributeDecoder::decode_attribute, on the n bytes at offset at.        *)
DecodeAttribute(res, attr, mem, at, n) ==
  LET ty == AttributeType(res, attr)
  IN IF ty = "unsupported" THEN Err("UnsupportedAttributeType")
     ELSE IF ty = "unnamed" THEN Err("MissingExpressionName")
     ELSE LET r == Deserialize(ty, mem, at, n)
          IN IF r.ok THEN Ok(With(res, attr, r.val)) ELSE r

(* Mutant: the next attribute is looked for right behind the payload.      *)
NextAttributeUnpadded(pos, attrSize) == pos + NLA_HDRLEN + attrSize

(* Where read_attributes looks for the attribute behind the one at pos.    *)
NextAttribute(pos, attrSize) == pos + NLA_HDRLEN + Pad(attrSize)

(* read_attributes, the loop: `end` is where the slice ends.               *)
RECURSIVE ReadAttributes(_, _, _, _, _)
ReadAttributes(res, mem, pos, remaining, end) ==
  IF remaining <= NLA_HDRLEN
  THEN IF remaining # 0 THEN Err("InvalidDataSize") ELSE Ok(res)
  ELSE IF pos \notin DOMAIN mem \/ mem[pos].k # "nlattr" THEN Err("misread")
  ELSE LET nlattr == mem[pos]
           attrSize == nlattr.nlaLen - NLA_HDRLEN
           r == DecodeAttribute(res, nlattr.type, mem, pos + NLA_HDRLEN, attrSize)
       IN IF attrSize < 0 \/ pos + nlattr.nlaLen > end THEN Err("panic")
          ELSE IF ~r.ok /\ r.err # "UnsupportedAttributeType" THEN r
          ELSE IF remaining < Pad(nlattr.nlaLen) THEN Err("panic")
          ELSE ReadAttributes(IF r.ok THEN r.val ELSE res, mem, NextAttribute(pos, attrSize),
                              remaining - Pad(nlattr.nlaLen), end)

(* NfNetlinkList::deserialize, the loop.                                   *)
RECURSIVE ReadList(_, _, _, _)
ReadList(list, mem, pos, end) ==
  IF pos > end THEN Err("panic")
  ELSE IF end - pos <= NLA_HDRLEN
  THEN IF pos # end THEN Err("InvalidDataSize") ELSE Ok(list)
  ELSE IF pos \notin DOMAIN mem \/ mem[pos].k # "nlattr" THEN Err("misread")
  ELSE IF mem[pos].type # NFTA_LIST_ELEM THEN Err("UnsupportedAttributeType")
  ELSE LET len == mem[pos].nlaLen
           r == Deserialize(ElementType[list.ty], mem, pos + NLA_HDRLEN, len - NLA_HDRLEN)
       IN IF len < NLA_HDRLEN \/ pos + len > end THEN Err("panic")
          ELSE IF ~r.ok THEN r
          ELSE ReadList([list EXCEPT !.items = Append(@, r.val)], mem, pos + Pad(len), end)

(* NfNetlinkDeserializable::deserialize of type ty.                        *)
Deserialize(ty, mem, at, n) ==
  IF ty \in DOMAIN Schema THEN ReadAttributes(Struct(ty), mem, at, n, at + n)
  ELSE IF ty \in DOMAIN ElementType THEN ReadList(List(ty, << >>), mem, at, at + n)
  ELSE ReadLeaf(ty, mem, at, n)

-----------------------------------------------------------------------------
(***************************************************************************)
(* The kernel's rendering of the same object (external): strings end in a  *)
(* NUL byte, the order of attributes is its own, and each top-level object *)
(* carries an attribute the crate has no field for.  The name of an        *)
(* expression comes before its data, unless `late`.                        *)
(***************************************************************************)

RECURSIVE KernelTree(_, _)
KernelTree(v, late) ==
  CASE v.k = "leaf" ->
         IF v.ty \in {"String", "ChainType"} THEN [v EXCEPT !.nul = 1, !.size = @ + 1] ELSE v
    [] v.k = "list" -> [v EXCEPT !.items = [i \in DOMAIN @ |-> KernelTree(@[i], late)]]
    [] v.k = "struct" ->
         LET own == [i \in DOMAIN v.fields |-> <<v.fields[i][1], KernelTree(v.fields[i][2], late)>>]
         IN [v EXCEPT !.fields = IF v.ty = "RawExpression" /\ ~late THEN own ELSE Reverse(own)]

(* The length of every attribute can be written into its header.           *)
RECURSIVE Fits(_)
Fits(v) ==
  CASE v.k = "leaf" -> TRUE
    [] v.k = "struct" -> \A i \in DOMAIN v.fields : FitsField(v.fields[i][2]) /\ Fits(v.fields[i][2])
    [] v.k = "list" -> \A i \in DOMAIN v.items : FitsField(v.items[i]) /\ Fits(v.items[i])

KernelMessage(v, late) ==
  [KernelTree(v, late) EXCEPT !.fields = <<<<"NFTA_UNKNOWN", Leaf("Vec", 4, "?")>>>> \o @]

-----------------------------------------------------------------------------
(***************************************************************************)
(* One object's way to the wire and back.                                  *)
(***************************************************************************)

Init ==
  /\ \/ obj \in Inputs /\ stage = "built"
     \/ obj \in Foreign /\ stage = "remote"
  /\ EncoderInit
  /\ result = Ok(Struct("Table"))

Send(tree) ==
  /\ sent' = tree
  /\ wire' = Encode(tree)
  /\ stage' = "written"
  /\ UNCHANGED <<obj, result>>

(* The crate serializes the object it holds.                               *)
Write == stage = "built" /\ Send(obj)

(* The kernel dumps the object (external), which it only holds if the      *)
(* length of every attribute fits.                                         *)
KernelWrite ==
  /\ stage \in {"built", "remote"}
  /\ Fits(obj)
  /\ \E late \in BOOLEAN : Send(KernelMessage(obj, late))

(* parse_object reads the attributes of the message back.                  *)
Read ==
  /\ stage = "written"
  /\ result' = Deserialize(obj.ty, wire.mem, 0, wire.len)
  /\ stage' = "read"
  /\ UNCHANGED <<obj, sent, wire>>

(* The object that was read is used again.                                 *)
Reuse ==
  /\ stage = "read" /\ result.ok
  /\ obj' = result.val
  /\ stage' = "built"
  /\ UNCHANGED <<sent, wire, result>>

Next == Write \/ KernelWrite \/ Read \/ Reuse

Spec == Init /\ [][Next]_vars

-----------------------------------------------------------------------------
(***************************************************************************)
(* Properties.                                                             *)
(***************************************************************************)

(* What read_attributes can take back: no struct and no list ends in an    *)
(* attribute without payload (both loops stop when one header is left),    *)
(* every enum value is known, no policy is Drop, and the name of an        *)
(* expression comes before its data.                                       *)
RECURSIVE Readable(_)
Readable(v) ==
  CASE v.k = "leaf" ->
         /\ v.ty \in DOMAIN Variants => v.val \in Variants[v.ty]
         /\ v.ty = "ChainPolicy" => v.val = "Accept"
    [] v.k = "struct" ->
         /\ \A i \in DOMAIN v.fields : Readable(v.fields[i][2])
         /\ v.fields # << >> => GetSize(Last(v.fields)[2]) > 0
         /\ v.ty = "RawExpression" /\ v.fields # << >> =>
              Head(v.fields)[1] = "NFTA_EXPR_NAME"
    [] v.k = "list" ->
         /\ \A i \in DOMAIN v.items : Readable(v.items[i])
         /\ v.items # << >> => GetSize(Last(v.items)) > 0

(* Reading what was written, by the crate or by the kernel, gives the same *)
(* object back, with every field, list element and expression in its       *)
(* place, in exactly the cases that Readable names, as long as every       *)
(* length fits its header: get_size, the writer's offsets, nla_len and the *)
(* reader's two cursors agree at every depth.  A Masquerade, the policy    *)
(* Drop and an attribute of 65532 bytes or more are the values that the    *)
(* crate writes and does not read back.                                    *)
RoundTrip ==
  stage = "read" => ((result.ok /\ result.val = obj) <=> Readable(sent) /\ Fits(sent))

(* The object with the policy that ChainPolicy::deserialize makes of any.  *)
Accepting(v) ==
  [v EXCEPT !.fields = [i \in DOMAIN @ |->
     IF @[i][2].ty = "ChainPolicy" THEN <<@[i][1], Leaf("ChainPolicy", 4, "Accept")>> ELSE @[i]]]

(* What the reader accepts it loses nothing of but the policy of a chain,  *)
(* and what it does not accept it refuses with a DecodeError: in the order *)
(* of the crate or of the kernel, and with whatever in it the crate does   *)
(* not know, no slice index leaves its bounds and no bytes are taken for   *)
(* something else.                                                         *)
LosslessOrRefused ==
  stage = "read" /\ Fits(sent) =>
    IF result.ok THEN result.val = Accepting(obj) ELSE result.err \notin {"panic", "misread"}

=============================================================================
