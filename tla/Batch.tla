-------------------------------- MODULE Batch --------------------------------
(***************************************************************************)
(* Batch (batch.rs) on top of NfNetlinkWriter (nlmsg.rs): a byte buffer to *)
(* which whole netlink messages are appended, the length field of the one  *)
(* being written growing with it, and the sequence number of the next one. *)
(***************************************************************************)
EXTENDS Writer

CONSTANTS
  SizeOf,     \* NfNetlinkAttribute::get_size() of each object
  KindOf,     \* its type: "Table", "Chain", "Rule", "Set", "SetElements"
  FamilyOf,   \* its ProtocolFamily
  SeqLimit    \* bound: u32::MAX in the code, where `seq += 1` overflows

Kinds == {"Table", "Chain", "Rule", "Set", "SetElements"}

ASSUME ObjectsAssumption ==
  /\ SizeOf \in [Bodies -> Nat]
  /\ KindOf \in [Bodies -> Kinds]
  /\ FamilyOf \in [Bodies -> Families]
  /\ NoBody \notin Bodies
  /\ SeqLimit \in Nat \ {0}

VARIABLES
  writer,  \* the NfNetlinkWriter: [len, at, headers] of the buffer it fills
  seq,     \* sequence number of the next message
  phase    \* "open", then "finalized" once finalize() has consumed the batch

batchVars == <<writer, seq, phase>>

(***************************************************************************)
(* Objects and delimiters.                                                 *)
(***************************************************************************)

(* Mutant: deletions are not acknowledged.                                 *)
RequestFlagsAckAddsOnly(b, t) ==
  {"REQUEST"} \cup (IF t = "Add" THEN {"ACK", "CREATE"} ELSE {})

(* get_add_flags and get_del_flags, with NLM_F_ACK added by add_or_remove  *)
(* and NLM_F_REQUEST by write_header.  Only Rule overrides the default.    *)
RequestFlags(b, t) ==
  {"REQUEST", "ACK"} \cup
  (IF t = "Add" THEN {"CREATE"} ELSE {}) \cup
  (IF t = "Add" /\ KindOf[b] = "Rule" THEN {"APPEND"} ELSE {})

ObjectHeader(b, t, s) ==
  [type |-> "NFT", op |-> t, family |-> FamilyOf[b],
   flags |-> RequestFlags(b, t), seq |-> s, resId |-> "none", len |-> 0,
   body |-> b]

DelimiterHeader(type, s) ==
  [type |-> type, op |-> "none", family |-> "Unspec", flags |-> {"REQUEST"},
   seq |-> s, resId |-> "NFTABLES", len |-> 0, body |-> NoBody]

(* add_or_remove: header, payload, close.                                  *)
AddOrRemove(w, b, t, s) ==
  FinalizeWritingObject(
    AddDataZeroed(WriteHeader(w, ObjectHeader(b, t, s)), SizeOf[b]))

WriteDelimiter(w, type, s) ==
  FinalizeWritingObject(WriteHeader(w, DelimiterHeader(type, s)))

(***************************************************************************)
(* Batch.                                                                  *)
(***************************************************************************)

(* Mutant: the number of BATCH_BEGIN is used again.                        *)
BatchInitSeqZero ==
  /\ writer = WriteDelimiter(EmptyWriter, "BATCH_BEGIN", 0)
  /\ seq = 0
  /\ phase = "open"

(* Batch::new()                                                            *)
BatchInit ==
  /\ writer = WriteDelimiter(EmptyWriter, "BATCH_BEGIN", 0)
  /\ seq = 1
  /\ phase = "open"

(* Mutant: the number is taken before it is increased.                     *)
AddReusesSeq(b, t) ==
  /\ phase = "open"
  /\ seq < SeqLimit
  /\ writer' = AddOrRemove(writer, b, t, seq - 1)
  /\ seq' = seq + 1
  /\ UNCHANGED phase

(* Batch::add(); add_iter() is a loop of it over an exclusively borrowed   *)
(* batch.                                                                  *)
Add(b, t) ==
  /\ phase = "open"
  /\ seq < SeqLimit
  /\ writer' = AddOrRemove(writer, b, t, seq)
  /\ seq' = seq + 1
  /\ UNCHANGED phase

(* Batch::finalize()                                                       *)
Finalize ==
  /\ phase = "open"
  /\ writer' = WriteDelimiter(writer, "BATCH_END", seq)
  /\ phase' = "finalized"
  /\ UNCHANGED seq

(* Mutant: waits for the number of BATCH_END, which is not acknowledged.   *)
LastAckOffByOne == seq

(* Mutant: stops one acknowledgement early.                                *)
LastAckEarly == seq - 2

(* What Batch::send() waits for, computed before finalize().               *)
LastAck == seq - 1

BatchNext ==
  \/ \E b \in Bodies, t \in {"Add", "Del"} : Add(b, t)
  \/ Finalize

BatchSpec == BatchInit /\ [][BatchNext]_batchVars

(***************************************************************************)
(* Properties.                                                             *)
(***************************************************************************)

(* Types: offsets of headers lie inside the buffer, and the next sequence  *)
(* number is past that of BATCH_BEGIN and fits its u32.                    *)
BatchTypeOK ==
  /\ writer = [len |-> writer.len, at |-> writer.at,
               headers |-> writer.headers]
  /\ writer.len \in Nat
  /\ DOMAIN writer.at \subseteq 0 .. (writer.len - 1)
  /\ \A o \in DOMAIN writer.at : writer.at[o] \in Requests
  /\ writer.headers \in Nat \cup {NoHeader}
  /\ seq \in 1 .. SeqLimit
  /\ phase \in {"open", "finalized"}

(* Between two calls no message is open, and the nlmsg_len fields lead     *)
(* from each header exactly to the next one, the last to the end of the    *)
(* buffer: the kernel, which walks them, finds every message that          *)
(* add_or_remove wrote with its whole payload and nothing else.            *)
Framing ==
  /\ writer.headers = NoHeader
  /\ Tiles(writer.at, 0, writer.len)
  /\ \A o \in DOMAIN writer.at :
       LET h == writer.at[o]
       IN  h.len = HeadersLen + (IF h.type = "NFT" THEN Pad(SizeOf[h.body])
                                 ELSE 0)

(* A batch starts with BATCH_BEGIN, numbered 0, each message is numbered   *)
(* one more than the message before it, and BATCH_END is there once the    *)
(* batch is finalized, as its last message.                                *)
Numbering ==
  /\ 0 \in DOMAIN writer.at
  /\ writer.at[0].type = "BATCH_BEGIN" /\ writer.at[0].seq = 0
  /\ \A o \in DOMAIN writer.at :
       LET h == writer.at[o]
           next == o + Pad(h.len)
           last == next = writer.len
       IN  /\ ~last => writer.at[next].seq = h.seq + 1
           /\ h.type = "BATCH_BEGIN" => o = 0
           /\ h.type = "BATCH_END" <=> (last /\ phase = "finalized")

(* The messages that ask for an acknowledgement are the objects of the     *)
(* batch, and their numbers are exactly 1 .. max_seq: send() may stop at   *)
(* the acknowledgement of max_seq, and not before.                         *)
AckWindow ==
  {writer.at[o].seq : o \in {x \in DOMAIN writer.at :
                               "ACK" \in writer.at[x].flags}} = 1 .. LastAck
==============================================================================
