------------------------------- MODULE Netlink -------------------------------
(***************************************************************************)
(* The netlink wire format as rustables sees it (nlmsg.rs, parser.rs):     *)
(* alignment, header sizes, and the classification of one incoming         *)
(* message.                                                                *)
(*                                                                         *)
(* A byte buffer is modelled by its length and by a function that maps the *)
(* offset of every message header in it to the message found there.        *)
(* Message payloads stay abstract: a message carries the object ("body")   *)
(* its attributes encode.                                                  *)
(***************************************************************************)
EXTENDS Integers

CONSTANTS
  Bodies,       \* the nftables objects that a message can carry
  Undecodable   \* the body of a message that Object::deserialize() rejects

ASSUME BodiesAssumption == Undecodable \notin Bodies

NLMSG_ALIGNTO == 4

(* pad_netlink_object_with_variable_size: (size + 3) & !3.                 *)
Pad(size) ==
  ((size + (NLMSG_ALIGNTO - 1)) \div NLMSG_ALIGNTO) * NLMSG_ALIGNTO

(* size_of::<...>() of the three C structures, all multiples of 4.         *)
SizeOfNlmsghdr == 16
SizeOfNfgenmsg == 4
SizeOfNlmsgerr == 20

(* nlmsg_type, up to what parse_nlmsg tells apart: the control messages    *)
(* below NLMSG_MIN_TYPE ("CONTROL" is any one the crate does not know), an *)
(* nftables message, a batch delimiter, and another subsystem's message.   *)
MsgTypes == {"NOOP", "ERROR", "DONE", "CONTROL", "NFT", "BATCH", "FOREIGN"}

(* NFNETLINK_V0, the only nfgenmsg version that is understood.             *)
NFNETLINK_V0 == 0

Messages ==
  [type : MsgTypes, len : Nat, seq : Nat,
   flags : SUBSET {"MULTI", "DUMP_INTR"},
   error : Int, version : Nat, body : Bodies \cup {Undecodable}]

(***************************************************************************)
(* Parsing one message out of the "avail" bytes that start at its header.  *)
(***************************************************************************)

DecodeErrors ==
  {"BufTooSmall", "NlMsgTooSmall", "ConcurrentGenerationUpdate",
   "UnsupportedType", "InvalidSubsystem", "InvalidVersion"}

(* Mutant: a message that fills the rest of the buffer is taken for cut.   *)
GetNlmsghdrStrict(avail, m) ==
  IF avail < SizeOfNlmsghdr THEN "BufTooSmall"
  ELSE IF m.len >= avail \/ m.len < SizeOfNlmsghdr THEN "NlMsgTooSmall"
  ELSE IF "DUMP_INTR" \in m.flags THEN "ConcurrentGenerationUpdate"
  ELSE "Header"

(* Mutant: NLM_F_DUMP_INTR is not looked at.                               *)
GetNlmsghdrNoIntr(avail, m) ==
  IF avail < SizeOfNlmsghdr THEN "BufTooSmall"
  ELSE IF m.len > avail \/ m.len < SizeOfNlmsghdr THEN "NlMsgTooSmall"
  ELSE "Header"

(* get_nlmsghdr: the checks made on every header, whatever its type.       *)
GetNlmsghdr(avail, m) ==
  IF avail < SizeOfNlmsghdr THEN "BufTooSmall"
  ELSE IF m.len > avail \/ m.len < SizeOfNlmsghdr THEN "NlMsgTooSmall"
  ELSE IF "DUMP_INTR" \in m.flags THEN "ConcurrentGenerationUpdate"
  ELSE "Header"

(* The control messages of parse_nlmsg.                                    *)
ParseControl(m) ==
  IF m.type = "NOOP" THEN "Noop"
  ELSE IF m.type = "DONE" THEN "Done"
  ELSE IF m.type = "CONTROL" THEN "UnsupportedType"
  ELSE IF m.len < SizeOfNlmsghdr + SizeOfNlmsgerr THEN "NlMsgTooSmall"
  ELSE "Error"

(* The nfnetlink messages of parse_nlmsg.                                  *)
ParseNfGenMsg(m) ==
  IF m.type = "FOREIGN" THEN "InvalidSubsystem"
  ELSE IF m.len < SizeOfNlmsghdr + SizeOfNfgenmsg THEN "NlMsgTooSmall"
  ELSE IF m.version # NFNETLINK_V0 THEN "InvalidVersion"
  ELSE "NfGenMsg"

(* parse_nlmsg: the NlMsg variant, or the DecodeError.                     *)
ParseNlmsg(avail, m) ==
  IF GetNlmsghdr(avail, m) # "Header" THEN GetNlmsghdr(avail, m)
  ELSE IF m.type \in {"NOOP", "ERROR", "DONE", "CONTROL"}
       THEN ParseControl(m)
       ELSE ParseNfGenMsg(m)

(***************************************************************************)
(* Framing.  The headers of "at" tile the bytes lo .. hi-1: the first one  *)
(* is at lo, and each is followed, after its padded length, by another one *)
(* or by hi.                                                               *)
(***************************************************************************)

Tiles(at, lo, hi) ==
  /\ lo < hi => lo \in DOMAIN at
  /\ \A o \in DOMAIN at :
       (lo <= o /\ o < hi) =>
         LET next == o + Pad(at[o].len)
         IN  \/ next = hi
             \/ next < hi /\ next \in DOMAIN at

(* The shortest message of each type that parse_nlmsg does not reject.     *)
MinLen(type) ==
  IF type = "ERROR" THEN SizeOfNlmsghdr + SizeOfNlmsgerr
  ELSE IF type \in {"NFT", "BATCH"} THEN SizeOfNlmsghdr + SizeOfNfgenmsg
  ELSE SizeOfNlmsghdr

(* A datagram that the kernel puts on the socket: whole messages, each     *)
(* padded (nlmsg_put() reserves the aligned size).                         *)
WellFormed(d) ==
  /\ d.size \in Nat
  /\ DOMAIN d.at \subseteq 0 .. (d.size - 1)
  /\ \A o \in DOMAIN d.at :
       d.at[o] \in Messages /\ d.at[o].len >= MinLen(d.at[o].type)
  /\ Tiles(d.at, 0, d.size)

(* The kernel's answer to request h alone (external): an nlmsgerr, followed *)
(* by the request itself when it failed.                                   *)
Reply(h, e) ==
  LET len == SizeOfNlmsghdr + SizeOfNlmsgerr +
             (IF e = 0 THEN 0 ELSE h.len - SizeOfNlmsghdr)
  IN  [size |-> Pad(len),
       at |-> [o \in {0} |->
                [type |-> "ERROR", len |-> len, seq |-> h.seq, flags |-> {},
                 error |-> -e, version |-> NFNETLINK_V0,
                 body |-> Undecodable]]]

==============================================================================
