------------------------------- MODULE RecvLoop -------------------------------
(***************************************************************************)
(* recv_and_process() of query.rs: one call that receives datagrams into a *)
(* buffer of 2 * nft_nlmsg_maxsize() bytes, takes the messages out of it   *)
(* one by one, and decides when the conversation is over.                  *)
(*                                                                         *)
(* The socket is a queue of datagrams filled by the kernel.  A pending     *)
(* socket error (ENOBUFS after an overrun) is returned by the next recv(). *)
(***************************************************************************)
EXTENDS Netlink, Sequences

CONSTANTS
  MaxSize,    \* nft_nlmsg_maxsize()
  Datagrams,  \* the datagrams the kernel may send
  MaxSeqs,    \* the max_seq arguments that Batch::send() may pass
  MaxInbox,   \* bound: unread datagrams the environment queues at a time
  MaxAcc      \* bound: objects listed before the environment falls silent

ASSUME MaxSeqsAssumption == MaxSeqs \subseteq Nat

ASSUME MaxSizeAssumption == MaxSize \in Nat \ {0}

ASSUME DatagramsAssumption ==
  \A d \in Datagrams : WellFormed(d) /\ d.size <= MaxSize

VARIABLES
  inbox,     \* the socket's receive queue
  sockErr,   \* "none", or the error that the next recv() returns
  mem,       \* msg_buffer: offset -> message whose header is at that offset
  bufStart,  \* buf_start
  endPos,    \* end_pos
  maxSeq,    \* the max_seq argument, NoSeq for None
  cb,        \* the cb argument: "none", or "decode" for a listing callback
  acc,       \* working_data: the objects handed to the callback, in order
  pc,        \* "idle", "recv" (before recv), "parse" (inner loop), "returned"
  result,    \* what the call returned
  errno      \* the errno inside QueryError::NetlinkError

args == <<maxSeq, cb>>
vars == <<inbox, sockErr, mem, bufStart, endPos, maxSeq, cb, acc, pc, result,
          errno>>

NoSeq == -1

(* Mutant: room for one message only.                                      *)
BufSizeSingle == MaxSize

(* The length of msg_buffer.                                               *)
BufSize == 2 * MaxSize

EmptyMem == [o \in {} |-> o]

Results ==
  DecodeErrors \cup
  {"none", "Ok", "NetlinkRecvError", "NetlinkError", "UndecodableObject",
   "UndecidableMessageTermination", "Panic"}

Least(a, b) == IF a <= b THEN a ELSE b

(* Mutant: the sign of nlmsgerr.error is kept.                             *)
AbsForgotten(e) == e

(* The errno is reported as an absolute value (parse_nlmsg normalises the  *)
(* sign).                                                                  *)
Abs(e) == IF e < 0 THEN -e ELSE e

(***************************************************************************)
(* The call starts: a zeroed buffer and both cursors at 0.                 *)
(***************************************************************************)
Begin(ms, callback) ==
  /\ pc = "idle"
  /\ pc' = "recv"
  /\ maxSeq' = ms
  /\ cb' = callback
  /\ mem' = EmptyMem
  /\ bufStart' = 0
  /\ endPos' = 0
  /\ acc' = <<>>
  /\ UNCHANGED <<inbox, sockErr, result, errno>>

(* The bytes of datagram contents "at" land in the buffer from "start" on; *)
(* only the first nb of them fit.                                          *)
Store(start, nb, at) ==
  [o \in {x \in DOMAIN mem : x < start \/ x >= start + nb}
           \cup {start + x : x \in {y \in DOMAIN at : y < nb}} |->
     IF start <= o /\ o < start + nb THEN at[o - start] ELSE mem[o]]

(* socket::recv() returns a datagram, cut to the free space.               *)
Recv ==
  /\ pc = "recv"
  /\ sockErr = "none"
  /\ inbox # <<>>
  /\ inbox' = Tail(inbox)
  /\ LET d  == Head(inbox)
         nb == Least(d.size, BufSize - endPos)
     IN  /\ endPos' = endPos + nb
         /\ mem' = Store(endPos, nb, d.at)
         /\ pc' = IF nb <= 0 THEN "returned" ELSE "parse"
         /\ result' = IF nb <= 0 THEN "Ok" ELSE result
  /\ UNCHANGED <<sockErr, bufStart, acc, errno, args>>

(* socket::recv() fails, `?` leaves the function.                          *)
RecvFails ==
  /\ pc = "recv"
  /\ sockErr # "none"
  /\ sockErr' = "none"
  /\ pc' = "returned"
  /\ result' = "NetlinkRecvError"
  /\ UNCHANGED <<inbox, mem, bufStart, endPos, acc, errno, args>>

(* Mutant: the last message ends the call before it is looked at.          *)
VerdictSeqFirst(p, m) ==
  IF p \in DecodeErrors THEN p
  ELSE IF p = "Done" THEN "Ok"
  ELSE IF maxSeq # NoSeq /\ m.seq >= maxSeq THEN "Ok"
  ELSE IF p = "Error" /\ m.error # 0 THEN "NetlinkError"
  ELSE "Continue"

(* Mutant: only the error of the last message is reported.                 *)
VerdictLastErrorOnly(p, m) ==
  IF p \in DecodeErrors THEN p
  ELSE IF p = "Done" THEN "Ok"
  ELSE IF maxSeq # NoSeq /\ m.seq < maxSeq THEN "Continue"
  ELSE IF p = "Error" /\ m.error # 0 THEN "NetlinkError"
  ELSE "Ok"

(* Mutant: NLMSG_DONE is skipped like NLMSG_NOOP.                          *)
VerdictIgnoresDone(p, m) ==
  IF p \in DecodeErrors THEN p
  ELSE IF p = "Error" /\ m.error # 0 THEN "NetlinkError"
  ELSE IF p = "NfGenMsg" /\ cb = "decode" /\ m.body = Undecodable
       THEN "UndecodableObject"
  ELSE IF maxSeq # NoSeq /\ m.seq >= maxSeq THEN "Ok"
  ELSE "Continue"

(* The body of the inner loop up to the advance of buf_start: what the     *)
(* call returns because of message m, parsed as p, or "Continue".          *)
Verdict(p, m) ==
  IF p \in DecodeErrors THEN p
  ELSE IF p = "Done" THEN "Ok"
  ELSE IF p = "Error" /\ m.error # 0 THEN "NetlinkError"
  ELSE IF p = "NfGenMsg" /\ cb = "decode" /\ m.body = Undecodable
       THEN "UndecodableObject"
  ELSE IF maxSeq = NoSeq /\ "MULTI" \notin m.flags
       THEN "UndecidableMessageTermination"
  ELSE IF maxSeq # NoSeq /\ m.seq >= maxSeq THEN "Ok"
  ELSE "Continue"

(* Mutant: the padding behind a message is not skipped.                    *)
AdvanceUnaligned(m) == m.len

(* How far buf_start moves past a message: netlink messages are 4 bytes    *)
(* aligned.                                                                *)
Advance(m) == Pad(m.len)

(* One turn of the inner loop.  Slicing [buf_start..end_pos] panics when   *)
(* buf_start has run past end_pos; bytes at which no header was stored     *)
(* are not a message, and reading one there counts as a failure too.       *)
Handle ==
  /\ pc = "parse"
  /\ bufStart # endPos
  /\ LET legible == bufStart < endPos /\ bufStart \in DOMAIN mem
         m == mem[bufStart]
         p == ParseNlmsg(endPos - bufStart, m)
         v == IF legible THEN Verdict(p, m) ELSE "Panic"
     IN  /\ acc' = IF /\ legible
                      /\ p = "NfGenMsg"
                      /\ cb = "decode"
                      /\ m.body # Undecodable
                   THEN Append(acc, m.body)
                   ELSE acc
         /\ bufStart' = IF v = "Continue" THEN bufStart + Advance(m)
                        ELSE bufStart
         /\ pc' = IF v = "Continue" THEN pc ELSE "returned"
         /\ result' = IF v = "Continue" THEN result ELSE v
         /\ errno' = IF v = "NetlinkError" THEN Abs(m.error) ELSE errno
  /\ UNCHANGED <<inbox, sockErr, mem, endPos, args>>

(* Mutant: the buffer is only rewound when it is full.                     *)
NeedsRelocationFull == endPos >= BufSize

(* Less than nft_nlmsg_maxsize() bytes are, or may be, left behind end_pos.*)
NeedsRelocation == endPos >= MaxSize

(* The buffer is consumed: the inner loop breaks and, if too little space  *)
(* is left, what remains in the buffer is moved to its beginning.          *)
Relocate ==
  /\ pc = "parse"
  /\ bufStart = endPos
  /\ pc' = "recv"
  /\ IF NeedsRelocation
     THEN /\ mem' = IF bufStart < endPos
                    THEN [o \in {x - bufStart : x \in DOMAIN mem \cap
                                                 (bufStart .. endPos - 1)} |->
                            mem[o + bufStart]]
                    ELSE mem
          /\ endPos' = endPos - bufStart
          /\ bufStart' = 0
     ELSE UNCHANGED <<mem, endPos, bufStart>>
  /\ UNCHANGED <<inbox, sockErr, acc, result, errno, args>>

Step == Recv \/ RecvFails \/ Handle \/ Relocate

(***************************************************************************)
(* The call on its own, against an environment that sends anything in      *)
(* Datagrams and may overrun the socket.                                   *)
(***************************************************************************)

Idle ==
  /\ inbox = <<>>
  /\ sockErr = "none"
  /\ mem = EmptyMem
  /\ bufStart = 0
  /\ endPos = 0
  /\ maxSeq = NoSeq
  /\ cb = "none"
  /\ acc = <<>>
  /\ pc = "idle"
  /\ result = "none"
  /\ errno = 0

Init == Idle

(* The two callers: Batch::send() passes a max_seq and no callback,        *)
(* list_objects_with_data() a callback and no max_seq.                     *)
Call ==
  \/ \E ms \in MaxSeqs : Begin(ms, "none")
  \/ Begin(NoSeq, "decode")

Deliver(d) ==
  /\ Len(inbox) < MaxInbox
  /\ Len(acc) < MaxAcc
  /\ inbox' = Append(inbox, d)
  /\ UNCHANGED <<sockErr, mem, bufStart, endPos, acc, pc, result, errno, args>>

Overrun ==
  /\ sockErr = "none"
  /\ sockErr' = "ENOBUFS"
  /\ UNCHANGED <<inbox, mem, bufStart, endPos, acc, pc, result, errno, args>>

Next == Call \/ (\E d \in Datagrams : Deliver(d)) \/ Overrun \/ Step

Spec == Init /\ [][Next]_vars

(***************************************************************************)
(* Properties.                                                             *)
(***************************************************************************)

(* Every variable keeps its type; in particular the cursors stay inside    *)
(* msg_buffer, and an errno reported to the caller is not negative.        *)
TypeOK ==
  /\ inbox \in Seq(Datagrams)
  /\ sockErr \in {"none", "ENOBUFS"}
  /\ DOMAIN mem \subseteq 0 .. (BufSize - 1)
  /\ \A o \in DOMAIN mem : mem[o] \in Messages
  /\ bufStart \in 0 .. BufSize
  /\ endPos \in 0 .. BufSize
  /\ maxSeq \in Nat \cup {NoSeq}
  /\ cb \in {"none", "decode"}
  /\ acc \in Seq(Bodies)
  /\ pc \in {"idle", "recv", "parse", "returned"}
  /\ result \in Results
  /\ errno \in Nat

(* The comment on the relocation in recv_and_process: "Ensure that we      *)
(* always have nft_nlmsg_maxsize() free space available in the buffer."    *)
(* It holds whenever recv() is about to be called, however the datagrams   *)
(* received so far have moved end_pos.                                     *)
FreeSpace == pc = "recv" => BufSize - endPos >= MaxSize

(* recv() never cuts a datagram short: the bytes past the free space would *)
(* be lost, since nobody looks at MSG_TRUNC.                               *)
WholeDatagrams ==
  [][(pc = "recv" /\ pc' = "parse") => endPos' = endPos + Head(inbox).size]_vars

(* As long as the kernel sends whole messages, the cursor arithmetic of    *)
(* the inner loop never slices backwards, never reads a header where none  *)
(* was stored and never takes a complete message for a truncated one.      *)
NeverMisreads == result \notin {"Panic", "BufTooSmall", "NlMsgTooSmall"}

(***************************************************************************)
(* The inductive strengthening of the properties above.  While the inner   *)
(* loop runs, the unread bytes are tiled by whole messages; recv() is only *)
(* called with no unread bytes (so copy_within never has anything to move) *)
(* and with end_pos below MaxSize.                                         *)
(***************************************************************************)
Unread(o) == o \in DOMAIN mem /\ bufStart <= o /\ o < endPos

Cursors ==
  /\ bufStart <= endPos
  /\ pc \in {"idle", "recv"} => bufStart = endPos /\ endPos < MaxSize
  /\ pc = "parse" =>
       /\ Tiles(mem, bufStart, endPos)
       /\ \A o \in DOMAIN mem : Unread(o) => mem[o].len >= MinLen(mem[o].type)
  /\ NeverMisreads

==============================================================================
