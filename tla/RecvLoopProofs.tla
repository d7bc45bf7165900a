---------------------------- MODULE RecvLoopProofs ----------------------------
(***************************************************************************)
(* For every buffer size, every set of well-formed datagrams no larger     *)
(* than nft_nlmsg_maxsize() and every max_seq, recv_and_process() always   *)
(* has room for the next datagram and never misreads its buffer.           *)
(***************************************************************************)
EXTENDS RecvLoop, TLAPS

(* Padding reaches the next multiple of 4 and never shrinks a length.      *)
LEMMA PadBounds ==
  ASSUME NEW n \in Nat
  PROVE  /\ Pad(n) \in Nat
         /\ n <= Pad(n)
         /\ Pad(n) <= n + 3
BY DEF Pad, NLMSG_ALIGNTO

(* parse_nlmsg answers with one of the four NlMsg variants or an error.    *)
LEMMA ParseType ==
  ASSUME NEW avail \in Nat, NEW m \in Messages
  PROVE  ParseNlmsg(avail, m) \in
           DecodeErrors \cup {"Noop", "Done", "Error", "NfGenMsg"}
BY DEF ParseNlmsg, GetNlmsghdr, ParseControl, ParseNfGenMsg, DecodeErrors,
       Messages, MsgTypes

(* A complete message of its type's minimal length is never reported as    *)
(* too small.                                                              *)
LEMMA ParseComplete ==
  ASSUME NEW avail \in Nat, NEW m \in Messages,
         m.len <= avail, m.len >= MinLen(m.type)
  PROVE  ParseNlmsg(avail, m) \notin {"BufTooSmall", "NlMsgTooSmall"}
BY DEF ParseNlmsg, GetNlmsghdr, ParseControl, ParseNfGenMsg, MinLen,
       Messages, MsgTypes, SizeOfNlmsghdr, SizeOfNlmsgerr, SizeOfNfgenmsg

(* The inductive invariant.                                                *)
IInv == TypeOK /\ Cursors

LEMMA InitIInv == Init => IInv
BY MaxSizeAssumption
   DEF Init, Idle, IInv, TypeOK, Cursors, NeverMisreads, EmptyMem, BufSize,
       NoSeq, Results, Unread

(* A call starts with an empty buffer.                                     *)
LEMMA BeginStep ==
  ASSUME IInv, NEW ms \in Nat \cup {NoSeq}, NEW c \in {"none", "decode"},
         Begin(ms, c)
  PROVE  IInv'
BY MaxSizeAssumption
   DEF Begin, IInv, TypeOK, Cursors, NeverMisreads, EmptyMem, BufSize, Unread

(* recv(): the datagram fits and lands, whole, right after the bytes       *)
(* already consumed.                                                       *)
LEMMA RecvStep ==
  ASSUME IInv, Recv
  PROVE  /\ IInv'
         /\ endPos' = endPos + Head(inbox).size
<1> DEFINE d == Head(inbox)
           nb == Least(d.size, BufSize - endPos)
<1>1. d \in Datagrams /\ WellFormed(d) /\ d.size \in Nat /\ d.size <= MaxSize
  BY DatagramsAssumption DEF Recv, IInv, TypeOK, WellFormed
<1>2. bufStart = endPos /\ endPos \in Nat /\ endPos < MaxSize
  BY DEF Recv, IInv, TypeOK, Cursors
<1>3. nb = d.size
  BY <1>1, <1>2, MaxSizeAssumption DEF Least, BufSize
<1>4. endPos' = endPos + d.size /\ endPos' \in 0 .. BufSize
  BY <1>1, <1>2, <1>3, MaxSizeAssumption DEF Recv, BufSize
<1>5. mem' = Store(endPos, d.size, d.at)
  BY <1>3 DEF Recv
<1>6. \A o : o \in DOMAIN mem' <=>
               \/ o \in DOMAIN mem /\ (o < endPos \/ o >= endPos + d.size)
               \/ \E x \in DOMAIN d.at : x < d.size /\ o = endPos + x
  BY <1>5 DEF Store
<1>7. \A o \in DOMAIN mem' :
         mem'[o] = IF endPos <= o /\ o < endPos + d.size THEN d.at[o - endPos]
                   ELSE mem[o]
  BY <1>5 DEF Store
<1>8. DOMAIN mem \subseteq 0 .. (BufSize - 1)
      /\ \A o \in DOMAIN mem : mem[o] \in Messages
  BY DEF IInv, TypeOK
<1>9. DOMAIN d.at \subseteq 0 .. (d.size - 1)
      /\ \A x \in DOMAIN d.at :
           d.at[x] \in Messages /\ d.at[x].len >= MinLen(d.at[x].type)
  BY <1>1 DEF WellFormed
<1>10. DOMAIN mem' \subseteq 0 .. (BufSize - 1)
  BY <1>1, <1>2, <1>6, <1>8, <1>9, MaxSizeAssumption DEF BufSize
<1>11. \A o \in DOMAIN mem' :
          (endPos <= o /\ o < endPos + d.size) =>
             o - endPos \in DOMAIN d.at /\ mem'[o] = d.at[o - endPos]
  BY <1>1, <1>2, <1>6, <1>7, <1>8, <1>9, MaxSizeAssumption DEF BufSize
<1>12. \A o \in DOMAIN mem' : mem'[o] \in Messages
  <2> TAKE o \in DOMAIN mem'
  <2>1. CASE endPos <= o /\ o < endPos + d.size
    BY <2>1, <1>9, <1>11
  <2>2. CASE ~(endPos <= o /\ o < endPos + d.size)
    <3>1. mem'[o] = mem[o]
      BY <2>2, <1>7
    <3>2. o \in DOMAIN mem
      BY <2>2, <1>1, <1>2, <1>6, <1>9
    <3> QED
      BY <3>1, <3>2, <1>8
  <2> QED
    BY <2>1, <2>2
<1>13. TypeOK'
  <2>1. inbox' \in Seq(Datagrams)
    BY DEF Recv, IInv, TypeOK
  <2> QED
    BY <2>1, <1>4, <1>10, <1>12 DEF Recv, IInv, TypeOK, Results, args, BufSize
<1>14. Tiles(mem', bufStart', endPos')
  <2>1. bufStart' = endPos
    BY <1>2 DEF Recv
  <2>2. Tiles(d.at, 0, d.size)
    BY <1>1 DEF WellFormed
  <2>3. \A x \in DOMAIN d.at : endPos + x \in DOMAIN mem'
    BY <1>1, <1>6, <1>9
  <2>4. endPos < endPos + d.size => endPos \in DOMAIN mem'
    BY <1>1, <1>2, <2>2, <2>3 DEF Tiles
  <2>5. ASSUME NEW o \in DOMAIN mem', endPos <= o, o < endPos + d.size
        PROVE  \/ o + Pad(mem'[o].len) = endPos + d.size
               \/ /\ o + Pad(mem'[o].len) < endPos + d.size
                  /\ o + Pad(mem'[o].len) \in DOMAIN mem'
    <3> DEFINE x == o - endPos
               n == x + Pad(d.at[x].len)
    <3>1. o \in Nat /\ x \in DOMAIN d.at /\ x \in 0 .. (d.size - 1)
          /\ mem'[o] = d.at[x]
      BY <2>5, <1>9, <1>10, <1>11
    <3>2. Pad(d.at[x].len) \in Nat
      BY <3>1, <1>9, PadBounds DEF Messages
    <3>3. n = d.size \/ (n < d.size /\ n \in DOMAIN d.at)
      BY <3>1, <2>2, <1>1 DEF Tiles
    <3>4. o + Pad(mem'[o].len) = endPos + n
      BY <3>1, <3>2, <1>2
    <3> HIDE DEF n
    <3>5. CASE n = d.size
      BY <3>4, <3>5
    <3>6. CASE n < d.size /\ n \in DOMAIN d.at
      BY <3>4, <3>6, <2>3, <1>1, <1>2, <1>9
    <3> QED
      BY <3>3, <3>5, <3>6
  <2> QED
    BY <2>1, <2>4, <2>5, <1>4 DEF Tiles
<1>15. Cursors'
  <2>1. \A o \in DOMAIN mem' :
          (bufStart' <= o /\ o < endPos') => mem'[o].len >= MinLen(mem'[o].type)
    BY <1>2, <1>4, <1>9, <1>11 DEF Recv
  <2>2. bufStart' <= endPos'
    BY <1>1, <1>2, <1>4 DEF Recv
  <2>3. pc' \in {"parse", "returned"} /\ NeverMisreads'
    BY DEF Recv, IInv, Cursors, NeverMisreads
  <2> QED
    BY <1>14, <2>1, <2>2, <2>3 DEF Cursors, Unread
<1> QED
  BY <1>4, <1>13, <1>15 DEF IInv

(* One turn of the inner loop reads a complete message at buf_start and,   *)
(* if it goes on, stops at the next message or at end_pos.                 *)
LEMMA HandleStep ==
  ASSUME IInv, Handle
  PROVE  IInv'
<1> DEFINE m == mem[bufStart]
           p == ParseNlmsg(endPos - bufStart, m)
           next == bufStart + Pad(m.len)
<1>1. /\ pc = "parse" /\ bufStart # endPos
      /\ bufStart \in 0 .. BufSize /\ endPos \in 0 .. BufSize
      /\ bufStart < endPos /\ endPos - bufStart \in Nat
      /\ Tiles(mem, bufStart, endPos)
  BY MaxSizeAssumption, SMTT(30) DEF Handle, IInv, TypeOK, Cursors, BufSize
<1>2. bufStart \in DOMAIN mem /\ m \in Messages /\ m.len \in Nat
  BY <1>1 DEF IInv, TypeOK, Tiles, Messages
<1>3. Pad(m.len) \in Nat /\ m.len <= Pad(m.len)
  BY <1>2, PadBounds
<1>4. next = endPos \/ (next < endPos /\ next \in DOMAIN mem)
  BY <1>1, <1>2 DEF Tiles
<1>5. next \in Nat /\ bufStart <= next /\ next <= endPos
      /\ m.len <= endPos - bufStart
  BY <1>1, <1>2, <1>3, <1>4
<1>6. m.len >= MinLen(m.type)
  BY <1>1, <1>2 DEF IInv, Cursors, Unread
<1>7. p \notin {"BufTooSmall", "NlMsgTooSmall"}
  BY <1>1, <1>2, <1>5, <1>6, ParseComplete
<1>8. p \in DecodeErrors \cup {"Noop", "Done", "Error", "NfGenMsg"}
  BY <1>1, <1>2, ParseType
<1> DEFINE v == Verdict(p, m)
<1>9. v \in (Results \ {"Panic", "BufTooSmall", "NlMsgTooSmall"})
              \cup {"Continue"}
  <2> HIDE DEF p
  <2> QED BY <1>7, <1>8 DEF Verdict, Results, DecodeErrors
<1>10. /\ bufStart' = IF v = "Continue" THEN next ELSE bufStart
       /\ pc' = IF v = "Continue" THEN pc ELSE "returned"
       /\ result' = IF v = "Continue" THEN result ELSE v
       /\ errno' = IF v = "NetlinkError" THEN Abs(m.error) ELSE errno
       /\ acc' = IF p = "NfGenMsg" /\ cb = "decode" /\ m.body # Undecodable
                 THEN Append(acc, m.body) ELSE acc
       /\ UNCHANGED <<inbox, sockErr, mem, endPos, args>>
  BY <1>1, <1>2 DEF Handle, Advance
<1> HIDE DEF p, v, next
<1>11. errno' \in Nat
  BY <1>2, <1>10 DEF IInv, TypeOK, Abs, Messages
<1>12. acc' \in Seq(Bodies)
  BY <1>2, <1>10 DEF IInv, TypeOK, Messages
<1>13. TypeOK'
  BY <1>1, <1>5, <1>9, <1>10, <1>11, <1>12, MaxSizeAssumption
     DEF IInv, TypeOK, args, BufSize, Results
<1>14. NeverMisreads'
  BY <1>9, <1>10 DEF IInv, Cursors, NeverMisreads
<1>15. bufStart' <= endPos' /\ bufStart <= bufStart' /\ endPos' = endPos
  BY <1>1, <1>5, <1>10
<1>16. ASSUME pc' = "parse"
       PROVE  Tiles(mem', bufStart', endPos')
  <2>1. v = "Continue" /\ bufStart' = next
    BY <1>10, <1>16
  <2>2. mem' = mem /\ DOMAIN mem \subseteq Nat
    BY <1>10 DEF IInv, TypeOK
  <2>3. next < endPos => next \in DOMAIN mem
    BY <1>4, <1>5, <1>1
  <2> QED
    BY <2>1, <2>2, <2>3, <1>1, <1>5, <1>15 DEF Tiles
<1>17. \A o \in DOMAIN mem' : Unread(o)' => mem'[o].len >= MinLen(mem'[o].type)
  <2>1. mem' = mem /\ DOMAIN mem \subseteq Nat
    BY <1>10 DEF IInv, TypeOK
  <2> QED
    BY <2>1, <1>1, <1>5, <1>10, <1>15 DEF IInv, Cursors, Unread
<1>18. pc' \in {"parse", "returned"}
  BY <1>1, <1>10
<1> QED
  BY <1>13, <1>14, <1>15, <1>16, <1>17, <1>18 DEF IInv, Cursors

(* With nothing left unread, relocating the buffer resets both cursors.    *)
LEMMA RelocateStep ==
  ASSUME IInv, Relocate
  PROVE  IInv'
<1>1. mem' = mem /\ bufStart' = endPos' /\ endPos' \in Nat /\ endPos' < MaxSize
  BY MaxSizeAssumption DEF Relocate, NeedsRelocation, IInv, TypeOK, BufSize
<1>2. TypeOK'
  BY <1>1, MaxSizeAssumption DEF Relocate, NeedsRelocation, IInv, TypeOK, BufSize, args
<1> QED
  BY <1>1, <1>2 DEF Relocate, IInv, Cursors, NeverMisreads

(* Steps that leave the buffer alone.                                      *)
LEMMA EnvironmentStep ==
  ASSUME IInv,
         RecvFails \/ Overrun \/ (\E d \in Datagrams : Deliver(d))
                   \/ UNCHANGED vars
  PROVE  IInv'
<1>1. UNCHANGED <<mem, bufStart, endPos, acc, errno, args>>
  BY DEF RecvFails, Overrun, Deliver, vars, args
<1>2. TypeOK'
  <2>1. CASE RecvFails
    BY <2>1 DEF RecvFails, IInv, TypeOK, args, Results
  <2>2. CASE Overrun
    BY <2>2 DEF Overrun, IInv, TypeOK, args
  <2>3. CASE \E d \in Datagrams : Deliver(d)
    BY <2>3 DEF Deliver, IInv, TypeOK, args
  <2>4. CASE UNCHANGED vars
    BY <2>4 DEF vars, IInv, TypeOK
  <2> QED
    BY <2>1, <2>2, <2>3, <2>4
<1>3. pc' = pc \/ pc' = "returned"
  BY DEF RecvFails, Overrun, Deliver, vars
<1>4. NeverMisreads'
  BY DEF RecvFails, Overrun, Deliver, vars, IInv, Cursors, NeverMisreads
<1> QED
  BY <1>1, <1>2, <1>3, <1>4 DEF IInv, Cursors, Unread, Tiles

LEMMA NextStep ==
  ASSUME IInv, [Next]_vars
  PROVE  IInv'
<1>1. CASE Call
  BY <1>1, BeginStep, MaxSeqsAssumption, Zenon DEF Call
<1>2. CASE Recv
  BY <1>2, RecvStep
<1>3. CASE Handle
  BY <1>3, HandleStep
<1>4. CASE Relocate
  BY <1>4, RelocateStep
<1>5. CASE RecvFails \/ Overrun \/ (\E d \in Datagrams : Deliver(d))
             \/ UNCHANGED vars
  BY <1>5, EnvironmentStep
<1> QED
  BY <1>1, <1>2, <1>3, <1>4, <1>5 DEF Next, Step

(* The cursors and the bytes they delimit stay consistent in every state   *)
(* of recv_and_process().                                                  *)
THEOREM ReceiveBufferInvariant == Spec => [](TypeOK /\ Cursors)
<1>1. Init => IInv
  BY InitIInv
<1>2. IInv /\ [Next]_vars => IInv'
  BY NextStep
<1>3. IInv => TypeOK /\ Cursors
  BY DEF IInv
<1> QED
  BY <1>1, <1>2, <1>3, PTL DEF Spec

(* The cursors stay inside msg_buffer, what is stored there are messages   *)
(* of the datagrams received, and an errno is reported without its sign.   *)
THEOREM TypeOKTheorem == Spec => []TypeOK
<1> QED
  BY ReceiveBufferInvariant, PTL

(* The relocation keeps its promise: nft_nlmsg_maxsize() free bytes before *)
(* every recv().                                                           *)
THEOREM FreeSpaceTheorem == Spec => []FreeSpace
<1>1. TypeOK /\ Cursors => FreeSpace
  BY MaxSizeAssumption DEF TypeOK, Cursors, FreeSpace, BufSize
<1> QED
  BY <1>1, ReceiveBufferInvariant, PTL

(* No slice panic and no complete message rejected as truncated, for any   *)
(* sequence of well-formed datagrams.                                      *)
THEOREM NeverMisreadsTheorem == Spec => []NeverMisreads
<1>1. TypeOK /\ Cursors => NeverMisreads
  BY DEF Cursors
<1> QED
  BY <1>1, ReceiveBufferInvariant, PTL

(* Every recv() stores the whole datagram.                                 *)
THEOREM WholeDatagramsTheorem == Spec => WholeDatagrams
<1>1. ASSUME TypeOK, Cursors, [Next]_vars
      PROVE  [(pc = "recv" /\ pc' = "parse") =>
                endPos' = endPos + Head(inbox).size]_vars
  <2>1. CASE Recv
    BY <1>1, <2>1, RecvStep DEF IInv
  <2>2. CASE ~Recv
    BY <1>1, <2>2
       DEF Next, Step, Call, Begin, Deliver, Overrun, RecvFails, Handle,
           Relocate, vars
  <2> QED
    BY <2>1, <2>2
<1> QED
  BY <1>1, ReceiveBufferInvariant, PTL DEF Spec, WholeDatagrams

===============================================================================
