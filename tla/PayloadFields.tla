--------------------------- MODULE PayloadFields ---------------------------
(***************************************************************************)
(* Reading a Payload expression back: a rule that the kernel dumps holds   *)
(* payload expressions with any base, offset and length, or with some of   *)
(* them missing.  parse_from_payload finds the layer; a caller who knows   *)
(* the protocol asks from_raw_data of that header for the field, and may   *)
(* build the expression again.                                             *)
(***************************************************************************)
EXTENDS Headers

CONSTANTS Offsets, Lengths,    \* the numbers a dumped expression may hold
          None                 \* an attribute that is missing

VARIABLES raw,      \* the Payload expression
          layer,    \* what parse_from_payload returned, << >> before the call
          field     \* <<header, what its from_raw_data returned>>, or << >>

payloadVars == <<raw, layer, field>>

(* Mutant: the arms of the network and of the transport header swapped.    *)
ParseFromPayloadSwapped(payload) ==
  IF payload.base = None THEN <<"Err", "PayloadMissingBase">>
  ELSE IF payload.len = None THEN <<"Err", "PayloadMissingLen">>
  ELSE IF payload.offset = None THEN <<"Err", "PayloadMissingOffset">>
  ELSE CASE payload.base = "NFT_PAYLOAD_LL_HEADER" -> FromRawData("LL", payload.offset, payload.len)
         [] payload.base = "NFT_PAYLOAD_NETWORK_HEADER" -> <<"Ok", "Transport">>
         [] payload.base = "NFT_PAYLOAD_TRANSPORT_HEADER" -> <<"Ok", "Network">>
         [] OTHER -> <<"Err", "UnknownPayloadType">>

(* PayloadType::parse_from_payload: a link layer field by name, otherwise  *)
(* only the header it is in.                                               *)
ParseFromPayload(payload) ==
  IF payload.base = None THEN <<"Err", "PayloadMissingBase">>
  ELSE IF payload.len = None THEN <<"Err", "PayloadMissingLen">>
  ELSE IF payload.offset = None THEN <<"Err", "PayloadMissingOffset">>
  ELSE CASE payload.base = "NFT_PAYLOAD_LL_HEADER" -> FromRawData("LL", payload.offset, payload.len)
         [] payload.base = "NFT_PAYLOAD_NETWORK_HEADER" -> <<"Ok", "Network">>
         [] payload.base = "NFT_PAYLOAD_TRANSPORT_HEADER" -> <<"Ok", "Transport">>
         [] OTHER -> <<"Err", "UnknownPayloadType">>

(* "NFT_PAYLOAD_INNER_HEADER" is a base the crate does not know.           *)
Bases == {Base(h) : h \in DOMAIN HeaderField} \cup {"NFT_PAYLOAD_INNER_HEADER"}

(* None stands for Option::None: no number, and no base.                   *)
ASSUME NoneAssumption == None \notin Nat /\ None \notin Bases

Raws == [expr : {"payload"}, dreg : {"Reg1"}, base : Bases \cup {None},
         offset : Offsets \cup {None}, len : Lengths \cup {None}]

PayloadInit == raw \in Raws /\ layer = << >> /\ field = << >>

Parse ==
  /\ layer = << >>
  /\ layer' = ParseFromPayload(raw)
  /\ UNCHANGED <<raw, field>>

(* The header's from_raw_data, once the layer is known.                    *)
Decode(header) ==
  /\ layer # << >> /\ layer[1] = "Ok" /\ field = << >>
  /\ Base(header) = raw.base
  /\ field' = <<header, FromRawData(header, raw.offset, raw.len)>>
  /\ UNCHANGED <<raw, layer>>

(* HighLevelPayload of the decoded field, built again.                     *)
Rebuild ==
  /\ field # << >> /\ field[2][1] = "Ok"
  /\ raw' = Build(field[1], field[2][2])
  /\ layer' = << >> /\ field' = << >>

PayloadNext == Parse \/ (\E header \in DOMAIN HeaderField : Decode(header)) \/ Rebuild

PayloadSpec == PayloadInit /\ [][PayloadNext]_payloadVars

-----------------------------------------------------------------------------
(* A field is decoded exactly when some field of that header is built as   *)
(* this expression, and it is that field: offset() and len() on one side,  *)
(* the match of from_raw_data on the other, are inverse for every header.  *)
DecodeInvertsBuild ==
  field # << >> =>
    \A f \in DOMAIN HeaderField[field[1]] :
      (field[2] = <<"Ok", f>>) <=> (Build(field[1], f) = raw)

(* The PayloadType of the HighLevelPayload that field f of header h is.    *)
Layer(h, f) ==
  CASE h = "LL" -> f
    [] h \in {"IPv4", "IPv6"} -> "Network"
    [] h \in {"Tcp", "Udp", "ICMPv6"} -> "Transport"

(* parse_from_payload returns, for every expression that build makes, the  *)
(* layer it was made for, and the field of an Ethernet header; what it     *)
(* refuses lacks an attribute, has a base the crate does not know, or is   *)
(* no field of an Ethernet header.                                         *)
BuiltIsAccepted ==
  layer # << >> =>
    /\ \A h \in DOMAIN HeaderField : \A f \in DOMAIN HeaderField[h] :
         Build(h, f) = raw => layer = <<"Ok", Layer(h, f)>>
    /\ layer[1] = "Err" =>
         \/ None \in {raw.base, raw.offset, raw.len}
         \/ raw.base = "NFT_PAYLOAD_INNER_HEADER"
         \/ raw.base = Base("LL") /\ \A f \in DOMAIN HeaderField["LL"] : Build("LL", f) # raw

=============================================================================
