------------------------------- MODULE Writer -------------------------------
(***************************************************************************)
(* NfNetlinkWriter (nlmsg.rs), as operators on its state: the length of    *)
(* the buffer, the messages in it by offset, and in w.headers the offset   *)
(* of the message being written, NoHeader between two messages.            *)
(***************************************************************************)
EXTENDS Netlink

CONSTANTS NoBody   \* the payload of a message that carries no attributes

Families == {"Unspec", "Inet", "Ipv4", "Arp", "NetDev", "Bridge", "Ipv6",
             "DecNet"}

NoHeader == -1

HeadersLen == Pad(SizeOfNlmsghdr) + Pad(SizeOfNfgenmsg)

(* Requests as they lie in the buffer.                                     *)
Requests ==
  [type : {"BATCH_BEGIN", "BATCH_END", "NFT"},
   op : {"none", "Add", "Del", "Get"}, family : Families,
   flags : SUBSET {"REQUEST", "ACK", "CREATE", "APPEND", "DUMP"},
   seq : Nat, resId : {"none", "NFTABLES"}, len : Nat,
   body : Bodies \cup {NoBody}]

Put(at, o, h) ==
  [x \in DOMAIN at \cup {o} |-> IF x = o THEN h ELSE at[x]]

(* add_data_zeroed: the buffer grows by the padded size and so does the    *)
(* message that is open, if any.                                           *)
AddDataZeroed(w, size) ==
  [len |-> w.len + Pad(size),
   at |-> IF w.headers = NoHeader THEN w.at
          ELSE [w.at EXCEPT ![w.headers].len = @ + Pad(size)],
   headers |-> w.headers]

(* write_header: both header structures, then the message is open.         *)
WriteHeader(w, h) ==
  LET w1 == AddDataZeroed(w, SizeOfNlmsghdr)
      w2 == [w1 EXCEPT !.at = Put(w1.at, w.len, [h EXCEPT !.len = HeadersLen])]
      w3 == AddDataZeroed(w2, SizeOfNfgenmsg)
  IN  [w3 EXCEPT !.headers = w3.len - HeadersLen]

(* Mutant: the message stays open and grows with the next one.             *)
FinalizeKeepsOpen(w) == w

(* finalize_writing_object                                                 *)
FinalizeWritingObject(w) == [w EXCEPT !.headers = NoHeader]

EmptyWriter == [len |-> 0, at |-> [o \in {} |-> o], headers |-> NoHeader]

=============================================================================
