----------------------------- MODULE BatchProofs ----------------------------
(***************************************************************************)
(* For any objects of any sizes, and any number of them, a Batch is a      *)
(* well-framed, consecutively numbered sequence of messages whose          *)
(* acknowledgements end at max_seq.                                        *)
(*                                                                         *)
(* Batch::send(), for any errors and any nft_nlmsg_maxsize(), is a         *)
(* transaction, reports the first error, has read every answer when it     *)
(* reports success, and closes its socket.  Its invariant follows the      *)
(* three parties: the sender (Progress), the kernel that walks the batch   *)
(* (Walk, History, Verdicts) and the receive loop that takes the answers   *)
(* one by one (Reception).                                                 *)
(***************************************************************************)
EXTENDS BatchSend, TLAPS

(* Batch.                                                                  *)

LEMMA PadFacts ==
  /\ \A n \in Nat : Pad(n) \in Nat /\ n <= Pad(n) /\ Pad(n) % 4 = 0
  /\ \A n \in Nat : n % 4 = 0 => Pad(n) = n
  /\ Pad(SizeOfNlmsghdr) = 16 /\ Pad(SizeOfNfgenmsg) = 4 /\ HeadersLen = 20
BY DEF Pad, NLMSG_ALIGNTO, HeadersLen, SizeOfNlmsghdr, SizeOfNfgenmsg

(* A header written between two messages, with a payload of n bytes, adds  *)
(* one message at the end of the buffer and touches no other.              *)
LEMMA AppendsOne ==
  ASSUME NEW w, w = [len |-> w.len, at |-> w.at, headers |-> NoHeader],
         w.len \in Nat, NEW h \in Requests, NEW n \in Nat
  PROVE  /\ FinalizeWritingObject(WriteHeader(w, h)) =
              [len |-> w.len + 20,
               at |-> Put(w.at, w.len, [h EXCEPT !.len = 20]),
               headers |-> NoHeader]
         /\ FinalizeWritingObject(AddDataZeroed(WriteHeader(w, h), n)) =
              [len |-> w.len + 20 + Pad(n),
               at |-> Put(w.at, w.len, [h EXCEPT !.len = 20 + Pad(n)]),
               headers |-> NoHeader]
<1>1. AddDataZeroed(w, SizeOfNlmsghdr) =
        [len |-> w.len + 16, at |-> w.at, headers |-> NoHeader]
  BY PadFacts DEF AddDataZeroed
<1> DEFINE w2 == [len |-> w.len + 16,
                  at |-> Put(w.at, w.len, [h EXCEPT !.len = 20]),
                  headers |-> NoHeader]
           w4 == [len |-> w.len + 20,
                  at |-> Put(w.at, w.len, [h EXCEPT !.len = 20]),
                  headers |-> w.len]
<1>2. AddDataZeroed(w2, SizeOfNfgenmsg) = [w2 EXCEPT !.len = w.len + 20]
  BY PadFacts DEF AddDataZeroed
<1>3. WriteHeader(w, h) = w4
  BY <1>1, <1>2, PadFacts DEF WriteHeader
<1>4. FinalizeWritingObject(w4) = [w4 EXCEPT !.headers = NoHeader]
  BY DEF FinalizeWritingObject
<1>5. AddDataZeroed(w4, n) =
        [len |-> w.len + 20 + Pad(n),
         at |-> Put(w.at, w.len, [h EXCEPT !.len = 20 + Pad(n)]),
         headers |-> w.len]
  <2>1. w.len # NoHeader
    BY DEF NoHeader
  <2>2. [w4.at EXCEPT ![w.len].len = @ + Pad(n)] =
          Put(w.at, w.len, [h EXCEPT !.len = 20 + Pad(n)])
    BY PadFacts, ZenonT(30) DEF Put, Requests
  <2> QED
    BY <2>1, <2>2, PadFacts DEF AddDataZeroed
<1> QED
  BY <1>3, <1>4, <1>5 DEF FinalizeWritingObject

(* The last message carries the number before the next one to be used,     *)
(* the buffer is aligned, and only objects ask for an acknowledgement.     *)
Tail4 ==
  /\ writer.len % 4 = 0
  /\ \A o \in DOMAIN writer.at :
       LET h == writer.at[o]
       IN  /\ o + Pad(h.len) = writer.len =>
                h.seq = IF phase = "open" THEN seq - 1 ELSE seq
           /\ "ACK" \in h.flags <=> h.type = "NFT"

IInv == BatchTypeOK /\ Framing /\ Numbering /\ AckWindow /\ Tail4

(* The writer after one more message h, of a padded length.                *)
AppendedTo(h) ==
  writer' = [len |-> writer.len + h.len, at |-> Put(writer.at, writer.len, h),
             headers |-> NoHeader]

(* Appending an object, numbered seq, or the final delimiter, preserves    *)
(* the invariant.                                                          *)
LEMMA AppendStep ==
  ASSUME IInv, phase = "open", NEW h \in Requests, AppendedTo(h),
         h.seq = seq,
         h.len = 20 + (IF h.type = "NFT" THEN Pad(SizeOf[h.body]) ELSE 0),
         \/ /\ h.type = "NFT" /\ h.body \in Bodies /\ "ACK" \in h.flags
            /\ phase' = "open" /\ seq' = seq + 1 /\ seq < SeqLimit
         \/ /\ h.type = "BATCH_END" /\ "ACK" \notin h.flags
            /\ phase' = "finalized" /\ seq' = seq
  PROVE  IInv'
<1>1. /\ writer'.len = writer.len + h.len /\ writer'.headers = NoHeader
      /\ writer'.at = Put(writer.at, writer.len, h)
      /\ writer' = [len |-> writer'.len, at |-> writer'.at,
                    headers |-> writer'.headers]
  BY DEF AppendedTo
<1>2. /\ writer.len \in Nat /\ writer.len % 4 = 0 /\ seq \in Nat
      /\ DOMAIN writer.at \subseteq 0 .. (writer.len - 1)
  BY DEF IInv, BatchTypeOK, Tail4
<1>3. h.len \in Nat /\ h.len % 4 = 0 /\ h.len >= 20 /\ Pad(h.len) = h.len
  <2>1. CASE h.type = "NFT"
    <3>1. Pad(SizeOf[h.body]) \in Nat /\ Pad(SizeOf[h.body]) % 4 = 0
      BY <2>1, ObjectsAssumption, PadFacts
    <3>2. h.len \in Nat /\ h.len % 4 = 0 /\ h.len >= 20
      BY <2>1, <3>1
    <3> QED
      BY <3>2, PadFacts
  <2>2. CASE h.type = "BATCH_END"
    <3>1. h.len = 20
      BY <2>2
    <3> QED
      BY <3>1, PadFacts
  <2> QED
    BY <2>1, <2>2
<1>4. /\ writer'.len \in Nat /\ writer'.len % 4 = 0
      /\ writer.len < writer'.len
      /\ writer.len + Pad(h.len) = writer'.len
  BY <1>1, <1>2, <1>3
<1>5. DOMAIN writer'.at = DOMAIN writer.at \cup {writer.len}
      /\ writer.len \notin DOMAIN writer.at
  BY <1>1, <1>2 DEF Put
<1>6. writer'.at[writer.len] = h
      /\ \A o \in DOMAIN writer.at : writer'.at[o] = writer.at[o]
  BY <1>1, <1>5 DEF Put
<1>7. DOMAIN writer'.at \subseteq 0 .. (writer'.len - 1)
      /\ \A o \in DOMAIN writer'.at : writer'.at[o] \in Requests
  BY <1>2, <1>4, <1>5, <1>6 DEF IInv, BatchTypeOK
<1>8. \A o \in DOMAIN writer.at :
         /\ o + Pad(writer.at[o].len) \in Nat
         /\ \/ o + Pad(writer.at[o].len) = writer.len
            \/ /\ o + Pad(writer.at[o].len) < writer.len
               /\ o + Pad(writer.at[o].len) \in DOMAIN writer.at
  <2>1. \A o \in DOMAIN writer.at :
           o \in Nat /\ o < writer.len /\ Pad(writer.at[o].len) \in Nat
    BY <1>2, PadFacts DEF IInv, BatchTypeOK, Requests
  <2> QED
    BY <2>1 DEF IInv, Framing, Tiles
<1>9. BatchTypeOK'
  BY <1>1, <1>2, <1>4, <1>7, ObjectsAssumption DEF IInv, BatchTypeOK
<1>10. Tiles(writer'.at, 0, writer'.len)
  <2>1. 0 \in DOMAIN writer'.at
    BY <1>5 DEF IInv, Numbering
  <2>2. ASSUME NEW o \in DOMAIN writer'.at
        PROVE  LET next == o + Pad(writer'.at[o].len)
               IN  \/ next = writer'.len
                   \/ next < writer'.len /\ next \in DOMAIN writer'.at
    <3>1. CASE o = writer.len
      BY <3>1, <1>4, <1>6
    <3>2. CASE o \in DOMAIN writer.at
      BY <3>2, <1>2, <1>4, <1>5, <1>6, <1>8
    <3> QED
      BY <1>5, <3>1, <3>2
  <2> QED
    BY <2>1, <2>2 DEF Tiles
<1>11. Framing'
  BY <1>1, <1>5, <1>6, <1>10, PadFacts DEF IInv, Framing
<1>12. Numbering'
  <2>1. 0 \in DOMAIN writer'.at /\ writer'.at[0] = writer.at[0]
    BY <1>5, <1>6 DEF IInv, Numbering
  <2>2. ASSUME NEW o \in DOMAIN writer'.at
        PROVE  LET g == writer'.at[o]
                   next == o + Pad(g.len)
                   last == next = writer'.len
               IN  /\ ~last => writer'.at[next].seq = g.seq + 1
                   /\ g.type = "BATCH_BEGIN" => o = 0
                   /\ g.type = "BATCH_END" <=> (last /\ phase' = "finalized")
    <3>1. CASE o = writer.len
      BY <3>1, <1>4, <1>6
    <3>2. CASE o \in DOMAIN writer.at /\ o + Pad(writer.at[o].len) = writer.len
      BY <3>2, <1>2, <1>4, <1>6 DEF IInv, Numbering, Tail4
    <3>3. CASE o \in DOMAIN writer.at /\ o + Pad(writer.at[o].len) # writer.len
      BY <3>3, <1>2, <1>4, <1>6, <1>8 DEF IInv, Numbering
    <3> QED
      BY <1>5, <3>1, <3>2, <3>3
  <2> QED
    BY <2>1, <2>2 DEF IInv, Numbering
<1>13. AckWindow'
  BY <1>2, <1>5, <1>6 DEF IInv, AckWindow, LastAck, BatchTypeOK
<1>14. Tail4'
  BY <1>2, <1>4, <1>5, <1>6, <1>8 DEF IInv, Tail4
<1> QED
  BY <1>9, <1>11, <1>12, <1>13, <1>14 DEF IInv

(* Batch::new()                                                            *)
LEMMA InitIInv ==
  ASSUME BatchInit
  PROVE  IInv /\ DOMAIN writer.at = {0} /\ writer.at[0].type = "BATCH_BEGIN"
<1> DEFINE h0 == DelimiterHeader("BATCH_BEGIN", 0)
           h == [h0 EXCEPT !.len = 20]
<1>1. h0 \in Requests
  BY DEF DelimiterHeader, Requests, Families
<1>2. writer = [len |-> 20, at |-> Put(EmptyWriter.at, 0, h),
                headers |-> NoHeader]
  <2>1. /\ EmptyWriter = [len |-> EmptyWriter.len, at |-> EmptyWriter.at,
                          headers |-> NoHeader]
        /\ EmptyWriter.len = 0
    BY DEF EmptyWriter
  <2>2. FinalizeWritingObject(WriteHeader(EmptyWriter, h0)) =
          [len |-> EmptyWriter.len + 20,
           at |-> Put(EmptyWriter.at, EmptyWriter.len, h), headers |-> NoHeader]
    <3> HIDE DEF h0
    <3>1. EmptyWriter.len \in Nat /\ 0 \in Nat
      BY <2>1
    <3> QED
      BY <2>1, <3>1, <1>1, AppendsOne, Zenon
  <2> QED
    BY <2>1, <2>2 DEF BatchInit, WriteDelimiter
<1>3. DOMAIN writer.at = {0} /\ writer.at[0] = h
  BY <1>2 DEF Put, EmptyWriter
<1>4. /\ h \in Requests /\ h.len = 20 /\ h.seq = 0 /\ h.type = "BATCH_BEGIN"
      /\ h.flags = {"REQUEST"}
  BY <1>1 DEF Requests, DelimiterHeader
<1> HIDE DEF h, h0
<1>5. writer.len = 20 /\ writer.headers = NoHeader /\ seq = 1 /\ phase = "open"
      /\ Pad(20) = 20
  BY <1>2, PadFacts DEF BatchInit
<1>6. BatchTypeOK
  BY <1>2, <1>3, <1>4, <1>5, ObjectsAssumption DEF BatchTypeOK
<1>7. Framing
  BY <1>3, <1>4, <1>5, PadFacts DEF Framing, Tiles
<1>8. Numbering
  BY <1>3, <1>4, <1>5 DEF Numbering
<1>9. AckWindow
  BY <1>3, <1>4, <1>5 DEF AckWindow, LastAck
<1>10. Tail4
  BY <1>3, <1>4, <1>5 DEF Tail4
<1> QED
  BY <1>3, <1>4, <1>6, <1>7, <1>8, <1>9, <1>10 DEF IInv

(* Batch::add() appends the object, numbered seq.                          *)
LEMMA AddAppends ==
  ASSUME IInv, NEW b \in Bodies, NEW t \in {"Add", "Del"}, Add(b, t)
  PROVE  \E h \in Requests :
           /\ AppendedTo(h) /\ h.seq = seq /\ h.len = 20 + Pad(SizeOf[b])
           /\ h.type = "NFT" /\ h.body = b /\ h.op = t /\ "ACK" \in h.flags
<1> DEFINE h0 == ObjectHeader(b, t, seq)
           n == SizeOf[b]
           h == [h0 EXCEPT !.len = 20 + Pad(n)]
<1>1. seq \in Nat /\ n \in Nat /\ Pad(n) \in Nat /\ Pad(n) % 4 = 0
  BY ObjectsAssumption, PadFacts DEF IInv, BatchTypeOK
<1>2. h0 \in Requests
  BY <1>1, ObjectsAssumption DEF ObjectHeader, Requests, RequestFlags
<1>3. /\ h \in Requests /\ h.len = 20 + Pad(n) /\ h.seq = seq
      /\ h.type = "NFT" /\ h.body = b /\ h.op = t /\ "ACK" \in h.flags
  BY <1>1, <1>2 DEF Requests, ObjectHeader, RequestFlags
<1>4. writer' = [len |-> writer.len + h.len,
                 at |-> Put(writer.at, writer.len, h), headers |-> NoHeader]
  <2>1. /\ writer = [len |-> writer.len, at |-> writer.at,
                     headers |-> NoHeader]
        /\ writer.len \in Nat
    BY DEF IInv, BatchTypeOK, Framing
  <2>2. AddOrRemove(writer, b, t, seq) =
          [len |-> writer.len + 20 + Pad(n),
           at |-> Put(writer.at, writer.len, h), headers |-> NoHeader]
    BY <2>1, <1>1, <1>2, AppendsOne, Zenon DEF AddOrRemove
  <2> QED
    BY <2>1, <2>2, <1>1, <1>3 DEF Add
<1> HIDE DEF h, h0
<1> QED
  BY <1>3, <1>4 DEF AppendedTo

LEMMA AddStep ==
  ASSUME IInv, NEW b \in Bodies, NEW t \in {"Add", "Del"}, Add(b, t)
  PROVE  IInv'
BY AddAppends, AppendStep DEF Add

(* Batch::finalize() appends BATCH_END.                                    *)
LEMMA FinalizeAppends ==
  ASSUME IInv, Finalize
  PROVE  \E h \in Requests :
           /\ AppendedTo(h) /\ h.seq = seq /\ h.len = 20
           /\ h.type = "BATCH_END" /\ h.flags = {"REQUEST"}
<1> DEFINE h0 == DelimiterHeader("BATCH_END", seq)
           h == [h0 EXCEPT !.len = 20]
<1>1. seq \in Nat
  BY DEF IInv, BatchTypeOK
<1>2. h0 \in Requests
  BY <1>1 DEF DelimiterHeader, Requests, Families
<1>3. /\ h \in Requests /\ h.len = 20 /\ h.seq = seq
      /\ h.type = "BATCH_END" /\ h.flags = {"REQUEST"}
  BY <1>1, <1>2 DEF Requests, DelimiterHeader
<1>4. writer' = [len |-> writer.len + h.len,
                 at |-> Put(writer.at, writer.len, h), headers |-> NoHeader]
  <2>1. /\ writer = [len |-> writer.len, at |-> writer.at,
                     headers |-> NoHeader]
        /\ writer.len \in Nat /\ 0 \in Nat
    BY DEF IInv, BatchTypeOK, Framing
  <2>2. FinalizeWritingObject(WriteHeader(writer, h0)) =
          [len |-> writer.len + 20,
           at |-> Put(writer.at, writer.len, h), headers |-> NoHeader]
    <3> HIDE DEF h0
    <3> QED BY <2>1, <1>2, AppendsOne, Zenon
  <2> QED
    BY <2>2, <1>3 DEF Finalize, WriteDelimiter
<1> HIDE DEF h, h0
<1> QED
  BY <1>3, <1>4 DEF AppendedTo

LEMMA FinalizeStep ==
  ASSUME IInv, Finalize
  PROVE  IInv'
BY FinalizeAppends, AppendStep DEF Finalize

LEMMA BatchInvariant == BatchSpec => []IInv
<1>1. BatchInit => IInv
  BY InitIInv
<1>2. IInv /\ [BatchNext]_batchVars => IInv'
  <2> SUFFICES ASSUME IInv, [BatchNext]_batchVars
               PROVE  IInv'
    OBVIOUS
  <2>1. CASE \E b \in Bodies, t \in {"Add", "Del"} : Add(b, t)
    BY <2>1, AddStep
  <2>2. CASE Finalize
    BY <2>2, FinalizeStep
  <2>3. CASE UNCHANGED batchVars
    BY <2>3 DEF batchVars, IInv, BatchTypeOK, Framing, Numbering, AckWindow,
                LastAck, Tail4
  <2> QED
    BY <2>1, <2>2, <2>3 DEF BatchNext
<1> QED
  BY <1>1, <1>2, PTL DEF BatchSpec

(* The buffer of a Batch always reads back as the messages written to it.  *)
THEOREM BatchFraming == BatchSpec => [](BatchTypeOK /\ Framing)
<1>1. IInv => BatchTypeOK /\ Framing
  BY DEF IInv
<1> QED
  BY <1>1, BatchInvariant, PTL

(* Sequence numbers run from BATCH_BEGIN to BATCH_END without gap, and     *)
(* acknowledgements are asked for 1 .. max_seq.                            *)
THEOREM BatchNumbering == BatchSpec => [](Numbering /\ AckWindow)
<1>1. IInv => Numbering /\ AckWindow
  BY DEF IInv
<1> QED
  BY <1>1, BatchInvariant, PTL

(* The buffer, the sequence counter and the messages in the buffer keep    *)
(* their types whatever is added to the batch.                             *)
THEOREM BatchTypeOKTheorem == BatchSpec => []BatchTypeOK
<1>1. IInv => BatchTypeOK
  BY DEF IInv
<1> QED
  BY <1>1, BatchInvariant, PTL

(* write_header gives the messages the numbers 0, 1, 2, ... in the order   *)
(* of their offsets.                                                       *)
THEOREM NumberingTheorem == BatchSpec => []Numbering
<1>1. IInv => Numbering
  BY DEF IInv
<1> QED
  BY <1>1, BatchInvariant, PTL

-----------------------------------------------------------------------------
(* Batch::send(): the invariant, the receive loop, the conclusion drawn    *)
(* from its result and the closing of the socket.                          *)

Err(d) == d.at[0].error
Num(d) == d.at[0].seq

(* An answer after which the receive loop goes on.                         *)
Benign(d) == Err(d) = 0 /\ Num(d) < LastAck

(* What each stage of send() implies.                                      *)
Progress ==
  /\ sendPc \in {"build", "opened", "sending", "receiving", "returned"}
  /\ fd \in {"none", "open", "closed"}
  /\ sendPc = "build" => phase = "open" /\ fd = "none"
  /\ sendPc = "opened" => phase = "open" /\ fd = "open"
  /\ sendPc \in {"sending", "receiving"} => phase = "finalized" /\ fd = "open"
  /\ sendPc # "returned" => answer = "none"
  /\ sendPc \in {"build", "opened"} => kout = "none" /\ kpos = 0
  /\ sendPc \in {"build", "opened", "sending"} => pc = "idle"
  /\ kout = "none" /\ sendPc # "returned" => inbox = <<>> /\ sockErr = "none"
  /\ sendPc = "receiving" => kout # "none" /\ maxSeq = LastAck /\ cb = "none" /\ pc # "idle"

FirstError(replies) ==
  \E i \in 1 .. Len(replies) :
    Err(replies[i]) # 0 /\ \A j \in 1 .. i - 1 : Err(replies[j]) = 0

(* The kernel is at a message of the batch, and has answered every request *)
(* before it, in order.                                                    *)
Walk ==
  /\ ruleset \subseteq Bodies /\ want \subseteq Bodies /\ kstage \subseteq Bodies
  /\ kout \in {"none", "committed", "aborted"}
  /\ kreplies \in Seq(ReplyDatagrams)
  /\ kpos \in DOMAIN writer.at
  /\ \A o \in DOMAIN writer.at : writer.at[o].type = "NFT" =>
       writer.at[o].body \in Bodies /\ writer.at[o].seq \in 1 .. LastAck
  /\ kout = "none" =>
       /\ Len(kreplies) = IF kpos = 0 THEN 0 ELSE writer.at[kpos].seq - 1
       /\ \A i \in 1 .. Len(kreplies) : Num(kreplies[i]) = i
       /\ Failed(kreplies) => FirstError(kreplies)

(* There are rulesets W[0], W[1], ... that lead from the committed one to  *)
(* the one that was asked for, request i from W[i - 1] to W[i], and the    *)
(* kernel is on that path until a request fails.                           *)
Path(W) ==
  /\ W[0] = ruleset /\ W[LastAck] = want
  /\ \A o \in DOMAIN writer.at : writer.at[o].type = "NFT" =>
       W[writer.at[o].seq] =
         T!Apply(W[writer.at[o].seq - 1], writer.at[o].body, writer.at[o].op)
  /\ kpos # 0 /\ ~Failed(kreplies) => kstage = W[writer.at[kpos].seq - 1]

History == kout = "none" => \E W \in [0 .. LastAck -> SUBSET Bodies] : Path(W)

(* The answers to a batch: all the acknowledgements, or a first error that *)
(* comes before the acknowledgement the receive loop waits for.            *)
Verdicts ==
  /\ kout = "committed" =>
       /\ Len(kreplies) = LastAck
       /\ \A i \in 1 .. Len(kreplies) : Num(kreplies[i]) = i /\ Err(kreplies[i]) = 0
  /\ kout = "aborted" =>
       \E i \in 1 .. Len(kreplies) :
         /\ Err(kreplies[i]) # 0
         /\ \A j \in 1 .. i - 1 : Benign(kreplies[j])

(* Of the first k answers, which the queue had room for, n have been       *)
(* received.                                                               *)
Queued(n, k) ==
  /\ inbox = SubSeq(kreplies, n + 1, k)
  /\ sockErr \in {"none", "ENOBUFS"}
  /\ sockErr = "ENOBUFS" => k < Len(kreplies)
  /\ sockErr = "none" /\ k < Len(kreplies) => pc = "returned" /\ result = "NetlinkRecvError"

(* The n-th answer is in the buffer, unless there was no room for its end. *)
Pending(n) ==
  /\ n > 0
  /\ bufStart \in Nat /\ bufStart < MaxSize
  /\ bufStart \in DOMAIN mem /\ mem[bufStart] = kreplies[n].at[0]
  /\ endPos = bufStart + R!Least(kreplies[n].size, R!BufSize - bufStart)

(* What recv_and_process() returned because of the n-th answer.            *)
Concluded(n) ==
  /\ n > 0
  /\ result \in {"Ok", "NetlinkError", "NlMsgTooSmall"}
  /\ result = "Ok" => Err(kreplies[n]) = 0 /\ Num(kreplies[n]) >= LastAck
  /\ result # "Ok" => Err(kreplies[n]) # 0
  /\ result = "NetlinkError" => errno = R!Abs(Err(kreplies[n]))
  /\ result = "NlMsgTooSmall" => kreplies[n].size > MaxSize

Consumed(n) ==
  /\ \A j \in 1 .. n : Benign(kreplies[j])
  /\ bufStart = endPos /\ endPos \in Nat

Loop(n) ==
  /\ pc \in {"idle", "recv", "parse", "returned"}
  /\ pc = "idle" => n = 0
  /\ pc = "recv" => Consumed(n) /\ endPos < MaxSize
  /\ pc = "parse" => Consumed(n) \/ (Pending(n) /\ \A j \in 1 .. n - 1 : Benign(kreplies[j]))
  /\ pc = "returned" =>
       \/ result = "NetlinkRecvError"
       \/ Concluded(n) /\ \A j \in 1 .. n - 1 : Benign(kreplies[j])

Reception ==
  kout # "none" =>
    \E k \in 0 .. Len(kreplies) : \E n \in 0 .. k : Queued(n, k) /\ Loop(n)

(* What the answer of send() says about the kernel.                        *)
Meaning ==
  /\ answer \in Answers
  /\ answer = "Ok" => kout = "committed"
  /\ answer \in {"NetlinkError", "NlMsgTooSmall"} => kout = "aborted"
  /\ answer \in {"NetlinkRecvError", "CloseFailed"} => kout # "none"
  /\ answer \in {"NetlinkOpenError", "NetlinkSendError", "Panic"} => kout = "none"

SInv ==
  /\ IInv /\ Progress /\ Walk /\ History /\ Verdicts /\ Reception
  /\ Meaning /\ ReportsFirstError /\ AllAcksRead /\ SocketReleased

-----------------------------------------------------------------------------
(* Facts about the answers.                                                *)

LEMMA ReplyFacts ==
  ASSUME NEW d \in ReplyDatagrams
  PROVE  /\ DOMAIN d.at = {0}
         /\ d.at[0].type = "ERROR" /\ d.at[0].flags = {}
         /\ Err(d) \in Int /\ Num(d) \in Nat
         /\ d.size \in Nat /\ d.at[0].len \in Nat
         /\ 36 <= d.at[0].len /\ d.at[0].len <= d.size
         /\ Err(d) = 0 => d.size = 36 /\ d.at[0].len = 36
<1>1. PICK q \in Answerable \X (Errnos \cup {0}) : d = Reply(q[1], q[2])
  BY DEF ReplyDatagrams
<1> DEFINE s == q[1].seq
           l == q[1].len
           e == q[2]
<1>2. /\ l \in {HeadersLen} \cup {HeadersLen + Pad(SizeOf[b]) : b \in Bodies}
      /\ s \in 0 .. SeqLimit /\ e \in Errnos \cup {0}
  BY DEF Answerable
<1>3. l \in Nat /\ l >= 20
  BY <1>2, PadFacts, ObjectsAssumption
<1>4. d = Reply([seq |-> s, len |-> l], e)
  BY <1>1 DEF Reply
<1> DEFINE len == 36 + (IF e = 0 THEN 0 ELSE l - 16)
<1>5. /\ d.size = Pad(len) /\ DOMAIN d.at = {0}
      /\ d.at[0].type = "ERROR" /\ d.at[0].flags = {} /\ d.at[0].len = len
      /\ Err(d) = -e /\ Num(d) = s
  BY <1>4 DEF Reply, Err, Num, SizeOfNlmsghdr, SizeOfNlmsgerr
<1>6. len \in Nat /\ 36 <= len /\ (e = 0 => len = 36)
  BY <1>3
<1>7. Pad(len) \in Nat /\ len <= Pad(len) /\ Pad(36) = 36
  BY <1>6, PadFacts
<1> HIDE DEF len, s, l, e
<1>8. e \in Nat /\ s \in Nat
  <2>1. e \in Errnos \/ e = 0
    BY <1>2
  <2> QED BY <2>1, <1>2, ErrnosAssumption, ObjectsAssumption
<1>9. Err(d) \in Int /\ (Err(d) = 0 => e = 0)
  BY <1>5, <1>8
<1>10. d.size \in Nat /\ d.at[0].len \in Nat /\ 36 <= d.at[0].len /\ d.at[0].len <= d.size
  BY <1>5, <1>6, <1>7, SMTT(30)
<1> QED
  BY <1>5, <1>6, <1>7, <1>8, <1>9, <1>10

LEMMA AnswersRequest ==
  ASSUME IInv, NEW o \in DOMAIN writer.at, writer.at[o].seq \in 0 .. LastAck,
         writer.at[o].type = "NFT" => writer.at[o].body \in Bodies,
         NEW e \in Errnos \cup {0}
  PROVE  /\ Reply(writer.at[o], e) \in ReplyDatagrams
         /\ Err(Reply(writer.at[o], e)) = -e
         /\ Num(Reply(writer.at[o], e)) = writer.at[o].seq
<1> DEFINE h == writer.at[o]
           g == [seq |-> h.seq, len |-> h.len]
<1>1. Reply(h, e) = Reply(g, e)
  BY DEF Reply
<1>2. h.len \in {HeadersLen} \cup {HeadersLen + Pad(SizeOf[b]) : b \in Bodies}
  <2>1. h.len = HeadersLen + (IF h.type = "NFT" THEN Pad(SizeOf[h.body]) ELSE 0)
    BY DEF IInv, Framing
  <2>2. HeadersLen = 20
    BY PadFacts
  <2> HIDE DEF h
  <2> QED BY <2>1, <2>2 DEF h
<1>3. h.seq \in 0 .. SeqLimit
  BY ObjectsAssumption DEF IInv, BatchTypeOK, LastAck
<1>4. Reply(g, e) \in ReplyDatagrams
  <2> HIDE DEF h
  <2>1. g \in Answerable
    BY <1>2, <1>3 DEF Answerable
  <2>2. <<g, e>> \in Answerable \X (Errnos \cup {0})
    BY <2>1
  <2> HIDE DEF g
  <2> QED BY <2>2 DEF ReplyDatagrams
<1> QED
  BY <1>1, <1>4 DEF Reply, Err, Num

-----------------------------------------------------------------------------
(* The receive loop.                                                       *)

LEMMA ParseReply ==
  ASSUME NEW d \in ReplyDatagrams, NEW avail \in Nat, avail >= 36
  PROVE  R!ParseNlmsg(avail, d.at[0]) =
           IF d.at[0].len <= avail THEN "Error" ELSE "NlMsgTooSmall"
<1> DEFINE m == d.at[0]
<1>1. m.type = "ERROR" /\ m.flags = {} /\ m.len \in Nat /\ m.len >= 36
  BY ReplyFacts
<1> HIDE DEF m
<1>2. R!ParseNlmsg(avail, m) = IF m.len <= avail THEN "Error" ELSE "NlMsgTooSmall"
  BY <1>1 DEF R!ParseNlmsg, R!GetNlmsghdr, R!ParseControl, R!SizeOfNlmsghdr, R!SizeOfNlmsgerr
<1> QED
  BY <1>2 DEF m

(* What Receive leaves alone.                                              *)
LEMMA ReceiveFrame ==
  ASSUME Receive
  PROVE  /\ sendPc = "receiving" /\ R!Step
         /\ UNCHANGED <<writer, seq, phase, ruleset, kpos, kstage, kreplies, kout,
                        sendPc, fd, answer, want>>
         /\ LastAck' = LastAck
         /\ maxSeq' = maxSeq /\ cb' = cb
         /\ \A d : Benign(d)' <=> Benign(d)
<1>1. maxSeq' = maxSeq /\ cb' = cb
  BY DEF Receive, R!Step, R!Recv, R!RecvFails, R!Handle, R!Relocate, R!args
<1> QED
  BY <1>1 DEF Receive, batchVars, kernelVars, sendVars, LastAck, Benign, Err, Num

(* The values that the receive loop compares.                              *)
LEMMA LoopTypes ==
  ASSUME IInv, Walk
  PROVE  /\ LastAck \in Nat
         /\ MaxSize \in Nat /\ 36 <= MaxSize /\ R!BufSize = 2 * MaxSize
         /\ Len(kreplies) \in Nat
         /\ \A i \in 1 .. Len(kreplies) : kreplies[i] \in ReplyDatagrams
<1>1. kreplies \in Seq(ReplyDatagrams)
  BY DEF Walk
<1>2. MaxSize \in Nat /\ 36 <= MaxSize
  BY AckFitsAssumption DEF SizeOfNlmsghdr, SizeOfNlmsgerr
<1>3. LastAck \in Nat
  BY ObjectsAssumption DEF IInv, BatchTypeOK, LastAck
<1> QED
  BY <1>1, <1>2, <1>3 DEF R!BufSize

LEMMA RecvReception ==
  ASSUME IInv, Progress, Walk, Receive, R!Recv,
         NEW k \in 0 .. Len(kreplies), NEW n \in 0 .. k, Queued(n, k), Loop(n), kout # "none"
  PROVE  Reception'
<1> DEFINE d == kreplies[n + 1]
           nb == R!Least(d.size, R!BufSize - endPos)
<1>1. /\ pc = "recv" /\ sockErr = "none" /\ inbox # <<>>
      /\ \A j \in 1 .. n : Benign(kreplies[j])
      /\ bufStart = endPos /\ endPos \in Nat /\ endPos < MaxSize
  BY DEF R!Recv, Loop, Consumed
<1>2. k \in Nat /\ n \in Nat /\ kreplies \in Seq(ReplyDatagrams)
  BY LoopTypes DEF Walk
<1>3. n + 1 <= k /\ Head(inbox) = d /\ Tail(inbox) = SubSeq(kreplies, n + 2, k)
  <2>1. inbox = SubSeq(kreplies, n + 1, k)
    BY DEF Queued
  <2>2. n + 1 <= k
    BY <1>1, <1>2, <2>1
  <2> QED
    BY <1>2, <2>1, <2>2
<1>4. d \in ReplyDatagrams
  BY <1>2, <1>3, LoopTypes
<1>5. d.size \in Nat /\ 36 <= d.size /\ 0 \in DOMAIN d.at
  BY <1>4, ReplyFacts
<1>6. nb \in Nat /\ nb > 0
  BY <1>1, <1>5, LoopTypes, SMT, SMTT(30) DEF R!Least
<1>7. /\ inbox' = SubSeq(kreplies, n + 2, k) /\ endPos' = endPos + nb
      /\ mem' = R!Store(endPos, nb, d.at) /\ pc' = "parse"
      /\ UNCHANGED <<sockErr, bufStart>>
  <2> HIDE DEF d
  <2> QED BY <1>3, <1>6 DEF R!Recv
<1> HIDE DEF nb
<1>8. bufStart' \in DOMAIN mem' /\ mem'[bufStart'] = d.at[0]
  <2> HIDE DEF d
  <2>1. endPos + 0 \in DOMAIN mem'
    BY <1>1, <1>5, <1>6, <1>7 DEF R!Store
  <2>2. mem'[endPos] = d.at[endPos - endPos]
    BY <1>1, <1>6, <1>7, <2>1 DEF R!Store
  <2> QED
    BY <1>1, <1>7, <2>1, <2>2
<1>9. UNCHANGED <<kreplies, kout>> /\ \A x : Benign(x)' <=> Benign(x)
  BY ReceiveFrame
<1>10. Pending(n + 1)'
  BY <1>1, <1>2, <1>7, <1>8, <1>9 DEF Pending, nb, R!BufSize
<1>11. \A j \in 1 .. (n + 1) - 1 : Benign(kreplies[j])'
  BY <1>1, <1>2, <1>9
<1>12. Loop(n + 1)'
  BY <1>7, <1>10, <1>11 DEF Loop
<1>13. Queued(n + 1, k)'
  BY <1>1, <1>2, <1>7, <1>9 DEF Queued
<1>14. n + 1 \in 0 .. k /\ k \in 0 .. Len(kreplies')
  BY <1>2, <1>3, <1>9
<1> QED
  BY <1>12, <1>13, <1>14 DEF Reception

LEMMA RecvFailsReception ==
  ASSUME IInv, Progress, Walk, Receive, R!RecvFails,
         NEW k \in 0 .. Len(kreplies), NEW n \in 0 .. k, Queued(n, k), Loop(n), kout # "none"
  PROVE  Reception'
<1>1. UNCHANGED <<kreplies, kout>>
  BY ReceiveFrame
<1>2. Queued(n, k)' /\ Loop(n)'
  BY <1>1 DEF R!RecvFails, Queued, Loop
<1> QED
  BY <1>1, <1>2 DEF Reception

LEMMA HandleReception ==
  ASSUME IInv, Progress, Walk, Receive, R!Handle,
         NEW k \in 0 .. Len(kreplies), NEW n \in 0 .. k, Queued(n, k), Loop(n), kout # "none"
  PROVE  Reception'
<1> DEFINE d == kreplies[n]
           m == d.at[0]
           avail == endPos - bufStart
<1>1. pc = "parse" /\ bufStart # endPos
  BY DEF R!Handle
<1>2. Pending(n) /\ \A j \in 1 .. n - 1 : Benign(kreplies[j])
  BY <1>1 DEF Loop, Consumed
<1>3. k \in Nat /\ n \in Nat /\ n \in 1 .. Len(kreplies) /\ d \in ReplyDatagrams
  <2>1. k \in Nat /\ n \in Nat /\ n \in 1 .. Len(kreplies)
    BY <1>2, LoopTypes DEF Pending
  <2> QED
    BY <2>1, LoopTypes
<1>4. /\ m.error = Err(d) /\ m.seq = Num(d)
      /\ Err(d) \in Int /\ Num(d) \in Nat /\ d.size \in Nat /\ m.len \in Nat
      /\ 36 <= m.len /\ m.len <= d.size
      /\ Err(d) = 0 => d.size = 36 /\ m.len = 36
  BY <1>3, ReplyFacts DEF Err, Num
<1>5. /\ bufStart \in Nat /\ bufStart < MaxSize /\ bufStart \in DOMAIN mem
      /\ mem[bufStart] = m
      /\ endPos = bufStart + R!Least(d.size, R!BufSize - bufStart)
  BY <1>2 DEF Pending
<1> HIDE DEF d, m
<1>6. /\ avail = R!Least(d.size, 2 * MaxSize - bufStart) /\ avail \in Nat /\ avail >= 36
      /\ bufStart < endPos /\ endPos \in Nat
  <2>1. d.size >= 36
    BY <1>4
  <2>2. MaxSize \in Nat /\ 36 <= MaxSize /\ R!BufSize = 2 * MaxSize
    BY LoopTypes
  <2>3. R!Least(d.size, 2 * MaxSize - bufStart) \in Nat /\ R!Least(d.size, 2 * MaxSize - bufStart) >= 36
    BY <2>1, <2>2, <1>4, <1>5 DEF R!Least
  <2> QED
    BY <2>2, <2>3, <1>5
<1> HIDE DEF avail
<1>7. R!ParseNlmsg(avail, m) = IF m.len <= avail THEN "Error" ELSE "NlMsgTooSmall"
  BY <1>3, <1>6, ParseReply DEF m
<1> DEFINE p == R!ParseNlmsg(avail, m)
           v == R!Verdict(p, m)
<1>8. v = IF m.len > avail THEN "NlMsgTooSmall"
          ELSE IF Err(d) # 0 THEN "NetlinkError"
          ELSE IF Num(d) >= LastAck THEN "Ok" ELSE "Continue"
  <2>1. maxSeq = LastAck /\ cb = "none" /\ LastAck # R!NoSeq
    BY ReceiveFrame, LoopTypes DEF Progress, R!NoSeq
  <2>2. CASE m.len > avail
    <3>1. p = "NlMsgTooSmall"
      BY <2>2, <1>4, <1>6, <1>7
    <3> HIDE DEF p
    <3> QED BY <3>1, <2>2 DEF R!Verdict, R!DecodeErrors
  <2>3. CASE m.len <= avail
    <3>1. p = "Error"
      BY <2>3, <1>7
    <3> HIDE DEF p
    <3> QED BY <3>1, <2>1, <2>3, <1>4, <1>6 DEF R!Verdict, R!DecodeErrors
  <2> QED
    BY <1>4, <1>6, <2>2, <2>3
<1>9. /\ bufStart' = IF v = "Continue" THEN bufStart + R!Pad(m.len) ELSE bufStart
      /\ pc' = IF v = "Continue" THEN pc ELSE "returned"
      /\ result' = IF v = "Continue" THEN result ELSE v
      /\ errno' = IF v = "NetlinkError" THEN R!Abs(m.error) ELSE errno
      /\ UNCHANGED <<inbox, sockErr, mem, endPos>>
  BY <1>5, <1>6 DEF R!Handle, R!Advance, avail
<1> HIDE DEF v, p
<1>10. UNCHANGED <<kreplies, kout>> /\ (\A x : Benign(x)' <=> Benign(x)) /\ LastAck' = LastAck
  BY ReceiveFrame
<1>11. \A j \in 1 .. n - 1 : Benign(kreplies[j])'
  BY <1>2, <1>10
<1>12. CASE v = "Continue"
  <2>1. Err(d) = 0 /\ Num(d) < LastAck /\ m.len = 36 /\ d.size = 36
    BY <1>4, <1>6, <1>8, <1>12, LoopTypes
  <2>2. R!Pad(36) = 36
    BY DEF R!Pad, R!NLMSG_ALIGNTO
  <2>3. endPos = bufStart + 36
    BY <2>1, <1>5, LoopTypes DEF R!Least
  <2>4. bufStart' = endPos' /\ endPos' \in Nat /\ pc' = "parse"
    BY <2>1, <2>2, <2>3, <1>1, <1>6, <1>9, <1>12
  <2>5. Benign(kreplies[n])'
    BY <2>1, <1>10 DEF Benign, d
  <2>6. \A j \in 1 .. n : Benign(kreplies[j])'
    BY <2>5, <1>3, <1>11
  <2>7. Loop(n)'
    BY <2>4, <2>6 DEF Loop, Consumed
  <2>8. Queued(n, k)'
    BY <2>4, <1>1, <1>9, <1>10 DEF Queued
  <2> QED
    BY <2>7, <2>8, <1>10 DEF Reception
<1>13. CASE v # "Continue"
  <2>1. pc' = "returned" /\ result' = v /\ v \in {"Ok", "NetlinkError", "NlMsgTooSmall"}
    BY <1>8, <1>9, <1>13
  <2>2. v = "Ok" => Err(d) = 0 /\ Num(d) >= LastAck
    BY <1>8, <1>13
  <2>3. v = "NetlinkError" => Err(d) # 0 /\ errno' = R!Abs(Err(d))
    BY <1>4, <1>8, <1>9
  <2>4. v = "NlMsgTooSmall" => Err(d) # 0 /\ d.size > MaxSize
    <3> SUFFICES ASSUME v = "NlMsgTooSmall" PROVE Err(d) # 0 /\ d.size > MaxSize
      OBVIOUS
    <3>1. m.len > avail
      BY <1>8
    <3>2. Err(d) # 0
      BY <3>1, <1>4, <1>6
    <3>3. avail = 2 * MaxSize - bufStart
      BY <3>1, <1>4, <1>5, <1>6, LoopTypes, SMT, SMTT(30) DEF R!Least
    <3> QED
      BY <3>1, <3>2, <3>3, <1>4, <1>5, LoopTypes, SMT, SMTT(30)
  <2>5. (Err(d) = Err(kreplies[n]) /\ Num(d) = Num(kreplies[n]) /\ d.size = kreplies[n].size)'
    BY <1>10 DEF d, Err, Num
  <2>6. (Err(d))' = Err(d) /\ (Num(d))' = Num(d) /\ d' = d
    BY <1>10 DEF d, Err, Num
  <2>7. Concluded(n)'
    BY <2>1, <2>2, <2>3, <2>4, <2>5, <2>6, <1>3, <1>10 DEF Concluded
  <2>8. Loop(n)'
    BY <2>1, <2>7, <1>11 DEF Loop
  <2>9. Queued(n, k)'
    BY <1>1, <1>9, <1>10 DEF Queued
  <2> QED
    BY <2>8, <2>9, <1>10 DEF Reception
<1> QED
  BY <1>12, <1>13

LEMMA RelocateReception ==
  ASSUME IInv, Progress, Walk, Receive, R!Relocate,
         NEW k \in 0 .. Len(kreplies), NEW n \in 0 .. k, Queued(n, k), Loop(n), kout # "none"
  PROVE  Reception'
<1>1. pc = "parse" /\ bufStart = endPos /\ pc' = "recv"
  BY DEF R!Relocate
<1>2. Consumed(n)
  <2> SUFFICES ASSUME Pending(n) PROVE FALSE
    BY <1>1 DEF Loop
  <2>1. n \in 1 .. Len(kreplies)
    BY LoopTypes DEF Pending
  <2>2. kreplies[n].size \in Nat /\ kreplies[n].size >= 36
    <3>1. kreplies[n] \in ReplyDatagrams
      BY <2>1, LoopTypes
    <3>2. /\ kreplies[n].size \in Nat /\ kreplies[n].at[0].len \in Nat
          /\ 36 <= kreplies[n].at[0].len /\ kreplies[n].at[0].len <= kreplies[n].size
      BY <3>1, ReplyFacts
    <3> QED BY <3>2
  <2> QED
    BY <2>2, <1>1, LoopTypes, SMT, SMTT(30) DEF Pending, R!Least
<1>3. bufStart' = endPos' /\ endPos' \in Nat /\ endPos' < MaxSize
  BY <1>1, <1>2, LoopTypes DEF Consumed, R!Relocate, R!NeedsRelocation
<1>4. UNCHANGED <<kreplies, kout, inbox, sockErr, result>> /\ \A x : Benign(x)' <=> Benign(x)
  BY ReceiveFrame DEF R!Relocate
<1>5. \A j \in 1 .. n : Benign(kreplies[j])'
  BY <1>2, <1>4 DEF Consumed
<1>6. Loop(n)'
  BY <1>1, <1>3, <1>5 DEF Loop, Consumed
<1>7. Queued(n, k)'
  BY <1>1, <1>4, SMTT(30) DEF Queued
<1> QED
  BY <1>4, <1>6, <1>7 DEF Reception

-----------------------------------------------------------------------------
(* What a step leaves alone keeps its part of the invariant.               *)

LEMMA BatchFrame ==
  ASSUME IInv, UNCHANGED batchVars
  PROVE  IInv'
BY DEF batchVars, IInv, BatchTypeOK, Framing, Numbering, AckWindow, LastAck, Tail4

LEMMA KernelFrame ==
  ASSUME UNCHANGED <<batchVars, kernelVars, want>>
  PROVE  (Walk => Walk') /\ (History => History') /\ (Verdicts => Verdicts')
<1>1. UNCHANGED <<writer, seq, phase, ruleset, kpos, kstage, kreplies, kout, want>> /\ LastAck' = LastAck
  BY DEF batchVars, kernelVars, LastAck
<1>2. Walk => Walk'
  BY <1>1 DEF Walk, Num
<1>3. History => History'
  BY <1>1, Zenon DEF History, Path, Failed, T!Apply
<1>4. Verdicts => Verdicts'
  BY <1>1 DEF Verdicts, Benign, Err, Num
<1> QED
  BY <1>2, <1>3, <1>4

LEMMA ReceptionFrame ==
  ASSUME Reception, UNCHANGED <<batchVars, kernelVars, recvVars>>
  PROVE  Reception'
<1>1. UNCHANGED <<writer, seq, phase, kreplies, kout, inbox, sockErr, mem, bufStart, endPos,
                  maxSeq, cb, acc, pc, result, errno>> /\ LastAck' = LastAck
  BY DEF batchVars, kernelVars, recvVars, LastAck
<1>2. ASSUME NEW n, NEW k, Queued(n, k) PROVE Queued(n, k)'
  BY <1>1, <1>2, SMT, SMTT(30) DEF Queued
<1>3. ASSUME NEW n, Loop(n) PROVE Loop(n)'
  BY <1>1, <1>3, ZenonT(30) DEF Loop, Consumed, Pending, Concluded, Benign, Err, Num
<1> QED
  BY <1>1, <1>2, <1>3 DEF Reception

LEMMA Unanswered ==
  ASSUME answer' = "none", sendPc' # "returned"
  PROVE  Meaning' /\ ReportsFirstError' /\ AllAcksRead' /\ SocketReleased'
BY DEF Meaning, ReportsFirstError, AllAcksRead, SocketReleased, Answers

-----------------------------------------------------------------------------
(* The steps of the sender.                                                *)

LEMMA ReceiveStep ==
  ASSUME SInv, Receive
  PROVE  SInv'
<1>1. kout # "none" /\ sendPc = "receiving" /\ answer = "none"
  BY ReceiveFrame DEF SInv, Progress
<1>2. PICK k \in 0 .. Len(kreplies) : \E n \in 0 .. k : Queued(n, k) /\ Loop(n)
  BY <1>1 DEF SInv, Reception
<1>3. PICK n \in 0 .. k : Queued(n, k) /\ Loop(n)
  BY <1>2
<1>4. IInv /\ Progress /\ Walk
  BY DEF SInv
<1>5. Reception'
  BY <1>1, <1>3, <1>4, ReceiveFrame, RecvReception, RecvFailsReception, HandleReception, RelocateReception
     DEF R!Step
<1>6. UNCHANGED <<batchVars, kernelVars, want, sendPc, fd, answer>> /\ UNCHANGED <<kout, phase, kpos, LastAck, maxSeq, cb>>
  BY ReceiveFrame DEF Receive, sendVars, batchVars, kernelVars
<1>7. Progress'
  <2>1. pc' # "idle"
    BY DEF Receive, R!Step, R!Recv, R!RecvFails, R!Handle, R!Relocate
  <2> QED
    BY <2>1, <1>1, <1>6, SMTT(30) DEF SInv, Progress
<1>8. IInv' /\ Walk' /\ History' /\ Verdicts'
  BY <1>6, BatchFrame, KernelFrame DEF SInv
<1>9. Meaning' /\ ReportsFirstError' /\ AllAcksRead' /\ SocketReleased'
  BY <1>1, <1>6, Unanswered, SMTT(30)
<1> QED
  BY <1>5, <1>7, <1>8, <1>9 DEF SInv

(* recv_and_process() says Ok only after the last acknowledgement of a     *)
(* committed batch, and an error only if the kernel sent one.              *)
LEMMA Conclusion ==
  ASSUME SInv, kout # "none", pc = "returned"
  PROVE  /\ result \in {"Ok", "NetlinkError", "NlMsgTooSmall", "NetlinkRecvError"}
         /\ result = "Ok" => kout = "committed" /\ inbox = <<>> /\ sockErr = "none"
         /\ result \in {"NetlinkError", "NlMsgTooSmall"} =>
              /\ kout = "aborted"
              /\ \E i \in 1 .. Len(kreplies) :
                   /\ Err(kreplies[i]) # 0
                   /\ \A j \in 1 .. i - 1 : Err(kreplies[j]) = 0
                   /\ result = "NetlinkError" => errno = R!Abs(Err(kreplies[i]))
                   /\ result = "NlMsgTooSmall" => kreplies[i].size > MaxSize
<1>1. PICK k \in 0 .. Len(kreplies) : \E n \in 0 .. k : Queued(n, k) /\ Loop(n)
  BY DEF SInv, Reception
<1>2. PICK n \in 0 .. k : Queued(n, k) /\ Loop(n)
  BY <1>1
<1>3. CASE result = "NetlinkRecvError"
  BY <1>3, SMTT(30)
<1>4. CASE Concluded(n) /\ \A j \in 1 .. n - 1 : Benign(kreplies[j])
  <2>1. /\ k \in Nat /\ n \in Nat /\ Len(kreplies) \in Nat /\ LastAck \in Nat /\ n \in 1 .. Len(kreplies)
        /\ kreplies \in Seq(ReplyDatagrams)
        /\ \A i \in 1 .. Len(kreplies) : Num(kreplies[i]) \in Nat
    <3>1. Len(kreplies) \in Nat /\ LastAck \in Nat /\ kreplies \in Seq(ReplyDatagrams)
      BY LoopTypes, Zenon DEF SInv, Walk
    <3>2. \A i \in 1 .. Len(kreplies) : Num(kreplies[i]) \in Nat
      BY LoopTypes, ReplyFacts DEF SInv
    <3> QED
      BY <1>4, <3>1, <3>2, SMT, SMTT(30) DEF Concluded
  <2>2. kout \in {"committed", "aborted"}
    BY DEF SInv, Walk
  <2>3. CASE result = "Ok"
    <3>1. Err(kreplies[n]) = 0 /\ Num(kreplies[n]) >= LastAck
      BY <1>4, <2>3 DEF Concluded
    <3>2. kout = "committed"
      <4> SUFFICES ASSUME kout = "aborted" PROVE FALSE
        BY <2>2
      <4>1. PICK i \in 1 .. Len(kreplies) :
              Err(kreplies[i]) # 0 /\ \A j \in 1 .. i - 1 : Benign(kreplies[j])
        BY DEF SInv, Verdicts
      <4>2. i < n \/ i = n \/ n \in 1 .. i - 1
        BY <2>1
      <4>3. ~(i < n)
        BY <4>1, <2>1, <1>4 DEF Benign
      <4>4. i # n
        BY <4>1, <3>1
      <4>5. Num(kreplies[n]) < LastAck
        BY <4>1, <4>2, <4>3, <4>4 DEF Benign
      <4> QED
        BY <4>5, <3>1, <2>1
    <3>3. Len(kreplies) = LastAck /\ Num(kreplies[n]) = n
      BY <3>2, <2>1 DEF SInv, Verdicts
    <3>4. n = k /\ k = Len(kreplies)
      BY <3>1, <3>3, <2>1
    <3>5. inbox = <<>> /\ sockErr = "none"
      <4>1. inbox = SubSeq(kreplies, n + 1, k)
        BY <1>2 DEF Queued
      <4>2. inbox = <<>>
        BY <4>1, <3>4, <2>1, SMTT(30)
      <4> QED
        BY <4>2, <3>4, <2>1, <1>2 DEF Queued
    <3> QED
      BY <2>3, <3>2, <3>5
  <2>4. CASE result \in {"NetlinkError", "NlMsgTooSmall"}
    <3>1. Err(kreplies[n]) # 0
      BY <1>4, <2>4 DEF Concluded
    <3>2. kout = "aborted"
      BY <3>1, <2>1, <2>2 DEF SInv, Verdicts
    <3>3. \A j \in 1 .. n - 1 : Err(kreplies[j]) = 0
      BY <1>4 DEF Benign
    <3> QED
      BY <3>1, <3>2, <3>3, <2>1, <2>4, <1>4 DEF Concluded
  <2> QED
    BY <1>4, <2>3, <2>4, SMT, SMTT(30) DEF Concluded
<1> QED
  BY <1>2, <1>3, <1>4 DEF Loop

LEMMA CloseStep ==
  ASSUME SInv, Close
  PROVE  SInv'
<1>1. /\ sendPc = "receiving" /\ pc = "returned" /\ fd' = "closed" /\ sendPc' = "returned"
      /\ answer' \in {result, "CloseFailed"}
      /\ UNCHANGED <<batchVars, recvVars, kernelVars, want>>
  BY DEF Close, Return
<1>2. UNCHANGED <<kout, kreplies, inbox, sockErr, errno, pc, phase, kpos, maxSeq, cb, LastAck>>
  BY <1>1 DEF batchVars, recvVars, kernelVars, LastAck
<1>3. kout \in {"committed", "aborted"}
  BY <1>1 DEF SInv, Progress, Walk
<1>4. Progress'
  BY <1>1, <1>2, <1>3 DEF SInv, Progress
<1>5. IInv' /\ Walk' /\ History' /\ Verdicts' /\ Reception'
  BY <1>1, BatchFrame, KernelFrame, ReceptionFrame DEF SInv
<1>6. SocketReleased'
  BY <1>1, SMTT(30) DEF SocketReleased
<1>7. AllAcksRead'
  BY <1>1, <1>2, <1>3, Conclusion, SMTT(30) DEF AllAcksRead
<1>8. Meaning'
  BY <1>1, <1>2, <1>3, Conclusion, SMTT(30) DEF Meaning, Answers
<1>9. ReportsFirstError'
  <2> SUFFICES ASSUME answer' \in {"NetlinkError", "NlMsgTooSmall"} PROVE ReportsFirstError'
    BY DEF ReportsFirstError
  <2>1. answer' = result /\ result \in {"NetlinkError", "NlMsgTooSmall"}
    BY <1>1
  <2>2. PICK i \in 1 .. Len(kreplies) :
          /\ Err(kreplies[i]) # 0
          /\ \A j \in 1 .. i - 1 : Err(kreplies[j]) = 0
          /\ result = "NetlinkError" => errno = R!Abs(Err(kreplies[i]))
          /\ result = "NlMsgTooSmall" => kreplies[i].size > MaxSize
    BY <2>1, <1>1, <1>3, Conclusion
  <2> QED
    BY <2>1, <2>2, <1>2, SMTT(30) DEF ReportsFirstError, Err, R!Abs
<1> QED
  BY <1>4, <1>5, <1>6, <1>7, <1>8, <1>9 DEF SInv

LEMMA CollectStep ==
  ASSUME SInv, Collect
  PROVE  SInv'
<1>1. /\ sendPc = "sending" /\ kout # "none" /\ pc = "idle" /\ answer = "none"
      /\ sendPc' = "receiving" /\ pc' = "recv" /\ maxSeq' = LastAck /\ cb' = "none"
      /\ bufStart' = 0 /\ endPos' = 0 /\ UNCHANGED <<inbox, sockErr, result>>
      /\ UNCHANGED <<batchVars, kernelVars, want>> /\ UNCHANGED <<fd, answer>>
  BY DEF SInv, Progress, Collect, R!Begin
<1>2. UNCHANGED <<kout, kreplies, phase, kpos, LastAck>>
  BY <1>1, SMTT(30) DEF batchVars, kernelVars, LastAck
<1>3. Progress'
  BY <1>1, <1>2 DEF SInv, Progress
<1>4. IInv' /\ Walk' /\ History' /\ Verdicts'
  BY <1>1, BatchFrame, KernelFrame DEF SInv
<1>5. Meaning' /\ ReportsFirstError' /\ AllAcksRead' /\ SocketReleased'
  BY <1>1, Unanswered
<1>6. Reception'
  <2>1. PICK k \in 0 .. Len(kreplies) : \E n \in 0 .. k : Queued(n, k) /\ Loop(n)
    BY <1>1 DEF SInv, Reception
  <2>2. PICK n \in 0 .. k : Queued(n, k) /\ Loop(n)
    BY <2>1
  <2>3. n = 0
    BY <2>2, <1>1 DEF Loop
  <2>4. Queued(0, k)'
    BY <2>2, <2>3, <1>1, <1>2 DEF Queued
  <2>5. Loop(0)'
    <3>1. 0 < MaxSize
      BY LoopTypes DEF SInv
    <3> QED BY <3>1, <1>1 DEF Loop, Consumed
  <2>6. 0 \in 0 .. k
    BY <2>3, SMTT(30)
  <2> QED
    BY <2>4, <2>5, <2>6, <1>2 DEF Reception
<1> QED
  BY <1>3, <1>4, <1>5, <1>6, SMTT(30) DEF SInv

-----------------------------------------------------------------------------
(* The kernel that walks a batch preserves the invariant, whatever it      *)
(* accepts or refuses.                                                     *)

(* The messages of a finalized batch follow each other up to BATCH_END,    *)
(* which carries the number after that of the last request.                *)
LEMMA NextRequest ==
  ASSUME IInv, phase = "finalized", NEW o \in DOMAIN writer.at,
         writer.at[o].type = "NFT" => writer.at[o].body \in Bodies
  PROVE  /\ writer.at[o].type = "BATCH_END" => writer.at[o].seq = LastAck + 1
         /\ writer.at[o].type # "BATCH_END" =>
              /\ o + Pad(writer.at[o].len) \in DOMAIN writer.at
              /\ o + Pad(writer.at[o].len) # 0
              /\ writer.at[o + Pad(writer.at[o].len)].seq = writer.at[o].seq + 1
         /\ writer.at[o].type = "BATCH_BEGIN" <=> o = 0
<1> DEFINE next == o + Pad(writer.at[o].len)
<1>1. /\ writer.len \in Nat /\ o \in Nat /\ o < writer.len /\ writer.at[o].len \in Nat
      /\ seq \in Nat /\ LastAck + 1 = seq
  BY ObjectsAssumption DEF IInv, BatchTypeOK, Requests, LastAck
<1>2. writer.at[o].len >= 20
  <2>1. writer.at[o].len = 20 + (IF writer.at[o].type = "NFT" THEN Pad(SizeOf[writer.at[o].body]) ELSE 0)
    BY PadFacts DEF IInv, Framing
  <2>2. CASE writer.at[o].type # "NFT"
    BY <2>1, <2>2
  <2>3. CASE writer.at[o].type = "NFT"
    BY <2>1, <2>3, PadFacts, ObjectsAssumption
  <2> QED
    BY <2>2, <2>3, SMTT(30)
<1>3. Pad(writer.at[o].len) \in Nat /\ Pad(writer.at[o].len) >= 20
  BY <1>1, <1>2, PadFacts, SMTT(30)
<1>4. next = writer.len \/ next \in DOMAIN writer.at
  BY <1>1 DEF IInv, Framing, Tiles
<1>5. writer.at[o].type = "BATCH_END" <=> next = writer.len
  BY DEF IInv, Numbering
<1>6. writer.at[o].type = "BATCH_END" => writer.at[o].seq = LastAck + 1
  BY <1>1, <1>5, SMTT(30) DEF IInv, Tail4
<1>7. writer.at[o].type # "BATCH_END" => writer.at[next].seq = writer.at[o].seq + 1
  BY <1>5 DEF IInv, Numbering
<1>8. writer.at[o].type = "BATCH_BEGIN" <=> o = 0
  BY DEF IInv, Numbering
<1> QED
  BY <1>1, <1>3, <1>4, <1>5, <1>6, <1>7, <1>8

(* The queue holds the answers, or those that it had room for.             *)
LEMMA EnqueueReception ==
  ASSUME kreplies' \in Seq(ReplyDatagrams), Enqueue(kreplies'), pc = "idle", sockErr = "none"
  PROVE  Reception'
<1>1. pc' = "idle"
  BY DEF Enqueue
<1>2. Len(kreplies') \in Nat
  OBVIOUS
<1>3. Loop(0)'
  BY <1>1 DEF Loop
<1>4. CASE inbox' = kreplies' /\ sockErr' = "none"
  <2>1. SubSeq(kreplies', 1, Len(kreplies')) = kreplies'
    OBVIOUS
  <2>2. Queued(0, Len(kreplies))'
    BY <1>2, <1>4, <2>1 DEF Queued
  <2> QED
    BY <1>2, <1>3, <2>2 DEF Reception
<1>5. CASE \E k \in 0 .. Len(kreplies') - 1 :
             inbox' = SubSeq(kreplies', 1, k) /\ sockErr' = "ENOBUFS"
  <2>1. PICK k \in 0 .. Len(kreplies') - 1 :
               inbox' = SubSeq(kreplies', 1, k) /\ sockErr' = "ENOBUFS"
    BY <1>5
  <2>2. Queued(0, k)'
    BY <1>2, <2>1, SMTT(30) DEF Queued
  <2> QED
    BY <1>2, <1>3, <2>1, <2>2 DEF Reception
<1> QED
  BY <1>4, <1>5 DEF Enqueue

(* What the kernel finds while it works.                                   *)
LEMMA KernelFacts ==
  ASSUME SInv, Working
  PROVE  /\ sendPc = "sending" /\ phase = "finalized" /\ fd = "open" /\ answer = "none"
         /\ kout = "none" /\ pc = "idle" /\ inbox = <<>> /\ sockErr = "none"
         /\ kpos \in DOMAIN writer.at /\ kreplies \in Seq(ReplyDatagrams)
         /\ LastAck \in Nat /\ 0 \in DOMAIN writer.at /\ writer.at[0].seq = 0
         /\ writer.at[0].type = "BATCH_BEGIN"
BY LoopTypes, Zenon DEF SInv, Working, Progress, Walk, IInv, Numbering

(* How far it has come, and where the next message is.                     *)
LEMMA KernelAt ==
  ASSUME SInv, Working
  PROVE  /\ IInv /\ ruleset \subseteq Bodies /\ kstage \subseteq Bodies
         /\ writer.at[kpos].type = "NFT" =>
              writer.at[kpos].body \in Bodies /\ writer.at[kpos].seq \in 1 .. LastAck
         /\ Len(kreplies) = IF kpos = 0 THEN 0 ELSE writer.at[kpos].seq - 1
         /\ \A i \in 1 .. Len(kreplies) : Num(kreplies[i]) = i
         /\ Failed(kreplies) => FirstError(kreplies)
         /\ writer.at[kpos].type = "BATCH_BEGIN" <=> kpos = 0
         /\ writer.at[kpos].type = "BATCH_END" => writer.at[kpos].seq = LastAck + 1
         /\ writer.at[kpos].type # "BATCH_END" =>
              /\ kpos + Pad(writer.at[kpos].len) \in DOMAIN writer.at
              /\ kpos + Pad(writer.at[kpos].len) # 0
              /\ writer.at[kpos + Pad(writer.at[kpos].len)].seq = writer.at[kpos].seq + 1
<1>1. IInv /\ phase = "finalized" /\ kpos \in DOMAIN writer.at /\ kout = "none"
  BY KernelFacts, Zenon DEF SInv
<1>2. /\ ruleset \subseteq Bodies /\ kstage \subseteq Bodies
      /\ writer.at[kpos].type = "NFT" =>
           writer.at[kpos].body \in Bodies /\ writer.at[kpos].seq \in 1 .. LastAck
      /\ Len(kreplies) = IF kpos = 0 THEN 0 ELSE writer.at[kpos].seq - 1
      /\ \A i \in 1 .. Len(kreplies) : Num(kreplies[i]) = i
      /\ Failed(kreplies) => FirstError(kreplies)
  BY <1>1, Zenon DEF SInv, Walk
<1> QED
  BY <1>1, <1>2, NextRequest, ZenonT(30)

(* Unless it gives its verdict, the kernel only moves its own state.       *)
LEMMA WalkingStep ==
  ASSUME SInv, Working, UNCHANGED <<batchVars, recvVars, sendVars, ruleset, kout, want>>,
         Walk', History'
  PROVE  SInv'
<1>1. UNCHANGED <<sendPc, phase, fd, answer, kout, pc, inbox, sockErr, LastAck>>
  BY DEF batchVars, recvVars, sendVars, LastAck
<1>2. IInv'
  BY BatchFrame, SMTT(30) DEF SInv
<1>3. Progress' /\ Verdicts' /\ Reception'
  BY <1>1, KernelFacts, ZenonT(30) DEF Progress, Verdicts, Reception
<1>4. Meaning' /\ ReportsFirstError' /\ AllAcksRead' /\ SocketReleased'
  BY <1>1, KernelFacts, Unanswered, Zenon
<1> QED
  BY <1>2, <1>3, <1>4 DEF SInv

(* When it does, it queues the answers.                                    *)
LEMMA VerdictStep ==
  ASSUME SInv, Working, kout' \in {"committed", "aborted"}, Enqueue(kreplies'),
         UNCHANGED <<batchVars, sendVars, kpos, kstage, want>>,
         ruleset' \subseteq Bodies, kreplies' \in Seq(ReplyDatagrams), Verdicts'
  PROVE  SInv'
<1>1. UNCHANGED <<sendPc, phase, fd, answer, pc, writer, kpos, kstage, want, LastAck>>
  BY DEF batchVars, sendVars, LastAck, Enqueue
<1>2. IInv'
  BY BatchFrame, SMTT(30) DEF SInv
<1>3. Walk'
  BY <1>1, ZenonT(30) DEF SInv, Walk
<1>4. Progress' /\ History'
  BY <1>1, KernelFacts, ZenonT(30) DEF Progress, History
<1>5. Reception'
  BY KernelFacts, EnqueueReception, ZenonT(30)
<1>6. Meaning' /\ ReportsFirstError' /\ AllAcksRead' /\ SocketReleased'
  BY <1>1, KernelFacts, Unanswered, SMTT(30)
<1> QED
  BY <1>2, <1>3, <1>4, <1>5, <1>6 DEF SInv

(* A path stays one as long as the batch and the rulesets it joins do.     *)
LEMMA PathFrame ==
  ASSUME NEW W, Path(W), UNCHANGED <<writer, LastAck, ruleset, want>>,
         kpos' # 0 /\ ~Failed(kreplies)' => kstage' = W[writer.at[kpos'].seq - 1]
  PROVE  Path(W)'
<1>1. (W[0] = ruleset /\ W[LastAck] = want)'
  BY SMTT(30) DEF Path
<1>2. \A o \in DOMAIN writer.at : writer.at[o].type = "NFT" =>
        W[writer.at[o].seq] = T!Apply(W[writer.at[o].seq - 1], writer.at[o].body, writer.at[o].op)
  BY SMTT(30) DEF Path
<1>3. (\A o \in DOMAIN writer.at : writer.at[o].type = "NFT" =>
        W[writer.at[o].seq] =
          T!Apply(W[writer.at[o].seq - 1], writer.at[o].body, writer.at[o].op))'
  BY <1>2, SMTT(30) DEF T!Apply
<1> QED
  BY <1>1, <1>3, ZenonT(30) DEF Path

(* Nor does the rest of Walk change, while the kernel goes through a batch.*)
LEMMA WalkFrame ==
  ASSUME SInv, Working, UNCHANGED <<writer, LastAck, ruleset, kout, want>>,
         kstage' \subseteq Bodies, kreplies' \in Seq(ReplyDatagrams), kpos' \in DOMAIN writer.at,
         kpos' # 0, Len(kreplies') = writer.at[kpos'].seq - 1,
         \A i \in 1 .. Len(kreplies') : Num(kreplies'[i]) = i,
         Failed(kreplies') => FirstError(kreplies')
  PROVE  Walk'
<1>1. /\ ruleset \subseteq Bodies /\ want \subseteq Bodies /\ kout \in {"none", "committed", "aborted"}
      /\ \A o \in DOMAIN writer.at : writer.at[o].type = "NFT" =>
           writer.at[o].body \in Bodies /\ writer.at[o].seq \in 1 .. LastAck
  BY ZenonT(30) DEF SInv, Walk
<1>2. (\A o \in DOMAIN writer.at : writer.at[o].type = "NFT" =>
        writer.at[o].body \in Bodies /\ writer.at[o].seq \in 1 .. LastAck)'
  BY <1>1, ZenonT(30)
<1> QED
  BY <1>1, <1>2, SMTT(30) DEF Walk

LEMMA KBeginStep ==
  ASSUME SInv, KBegin
  PROVE  SInv'
<1>1. /\ Working /\ writer.at[kpos].type = "BATCH_BEGIN"
      /\ kpos' = kpos + Pad(writer.at[kpos].len) /\ kstage' = ruleset
      /\ UNCHANGED <<batchVars, recvVars, sendVars, ruleset, kreplies, kout, want>>
  BY DEF KBegin, request
<1>2. UNCHANGED <<writer, seq, LastAck>>
  BY <1>1, Zenon DEF batchVars, LastAck
<1>3. kpos = 0 /\ kpos' \in DOMAIN writer.at /\ kpos' # 0 /\ writer.at[kpos'].seq = 1
  <2>1. /\ kpos = 0 /\ kpos' \in DOMAIN writer.at /\ kpos' # 0
        /\ writer.at[kpos'].seq = writer.at[0].seq + 1 /\ writer.at[0].seq = 0
    BY <1>1, KernelFacts, KernelAt, Zenon
  <2> QED
    BY <2>1, SMTT(30)
<1>4. Len(kreplies) = 0 /\ kreplies \in Seq(ReplyDatagrams) /\ kstage' \subseteq Bodies
  BY <1>1, <1>3, KernelFacts, KernelAt, Zenon
<1>5. Walk'
  <2>1. 1 .. Len(kreplies) = {} /\ Len(kreplies) = writer.at[kpos'].seq - 1
    BY <1>3, <1>4, SMTT(30)
  <2>2. ~Failed(kreplies) /\ \A i \in 1 .. Len(kreplies) : Num(kreplies[i]) = i
    BY <2>1, Zenon DEF Failed
  <2> QED
    BY <1>1, <1>2, <1>3, <1>4, <2>1, <2>2, WalkFrame, ZenonT(30)
<1>6. History'
  <2>1. PICK W \in [0 .. LastAck -> SUBSET Bodies] : Path(W)
    BY <1>1, KernelFacts, Zenon DEF SInv, History
  <2>2. kstage' = W[writer.at[kpos'].seq - 1]
    <3>1. writer.at[kpos'].seq - 1 = 0
      BY <1>3, SMTT(30)
    <3> QED
      BY <2>1, <1>1, <3>1, Zenon DEF Path
  <2>3. Path(W)'
    BY <2>1, <2>2, <1>1, <1>2, PathFrame, ZenonT(30)
  <2> QED
    BY <2>1, <2>3, <1>2 DEF History
<1> QED
  BY <1>1, <1>5, <1>6, WalkingStep

LEMMA KExecuteStep ==
  ASSUME SInv, NEW e \in Errnos \cup {0}, KExecute(e)
  PROVE  SInv'
<1> DEFINE h == writer.at[kpos]
           s == h.seq
           d == Reply(h, e)
<1>1. /\ Working /\ h.type = "NFT" /\ kpos' = kpos + Pad(h.len)
      /\ kstage' = IF e = 0 THEN T!Apply(kstage, h.body, h.op) ELSE kstage
      /\ kreplies' = IF e # 0 \/ "ACK" \in h.flags THEN Append(kreplies, d) ELSE kreplies
      /\ UNCHANGED <<batchVars, recvVars, sendVars, ruleset, kout, want>>
  BY SMTT(30) DEF KExecute, request
<1>2. UNCHANGED <<writer, seq, LastAck>>
  BY <1>1, ZenonT(30) DEF batchVars, LastAck
<1>3. /\ kpos \in DOMAIN writer.at /\ kpos # 0
      /\ h.body \in Bodies /\ s \in 1 .. LastAck /\ LastAck \in Nat
      /\ kreplies \in Seq(ReplyDatagrams) /\ Len(kreplies) = s - 1
      /\ \A i \in 1 .. Len(kreplies) : Num(kreplies[i]) = i
  BY <1>1, KernelFacts, KernelAt, Zenon
<1>4. kpos' \in DOMAIN writer.at /\ kpos' # 0 /\ writer.at[kpos'].seq = s + 1
  BY <1>1, KernelAt, Zenon
<1>5. d \in ReplyDatagrams /\ Err(d) = -e /\ Num(d) = s
  <2>1. IInv /\ s \in 0 .. LastAck
    <3>1. IInv
      BY Zenon DEF SInv
    <3> HIDE DEF s
    <3> QED BY <3>1, <1>3, SMTT(30)
  <2> QED
    BY <2>1, <1>3, AnswersRequest
<1>6. kreplies' = Append(kreplies, d)
  BY <1>1, <1>3 DEF SInv, IInv, Tail4
<1>7. /\ kreplies' \in Seq(ReplyDatagrams) /\ Len(kreplies') = s
      /\ \A i \in 1 .. s - 1 : kreplies'[i] = kreplies[i]
      /\ kreplies'[s] = d
  <2> HIDE DEF d, s
  <2> QED BY <1>3, <1>5, <1>6, SMT, SMTT(30)
<1>8. kstage \subseteq Bodies /\ kstage' \subseteq Bodies
  BY <1>1, <1>3, KernelAt, ZenonT(30) DEF T!Apply
<1>9. Failed(kreplies) => FirstError(kreplies)
  BY <1>1, KernelAt, Zenon
<1>10. Failed(kreplies') => FirstError(kreplies')
  <2> HIDE DEF d, s, h
  <2>1. CASE Failed(kreplies)
    <3>1. PICK i \in 1 .. s - 1 :
                 Err(kreplies[i]) # 0 /\ \A j \in 1 .. i - 1 : Err(kreplies[j]) = 0
      BY <1>3, <1>9, <2>1 DEF FirstError
    <3>2. i \in 1 .. Len(kreplies') /\ \A j \in 1 .. i : kreplies'[j] = kreplies[j]
      BY <1>3, <1>7
    <3>3. Err(kreplies'[i]) # 0 /\ \A j \in 1 .. i - 1 : Err(kreplies'[j]) = 0
      <4>1. i \in 1 .. i /\ \A j \in 1 .. i - 1 : j \in 1 .. i
        BY <1>3, SMTT(30)
      <4> QED
        BY <3>1, <3>2, <4>1, Zenon
    <3> QED
      BY <3>2, <3>3 DEF FirstError
  <2>2. CASE ~Failed(kreplies)
    BY <1>3, <1>7, <2>2 DEF FirstError, Failed, Err
  <2> QED
    BY <2>1, <2>2
<1>11. ~Failed(kreplies') => ~Failed(kreplies) /\ e = 0
  <2>1. e \in Int /\ (Err(d) = 0 => e = 0)
    BY <1>5, ErrnosAssumption, SMT, SMTT(30)
  <2> HIDE DEF d, s, h
  <2> QED BY <1>3, <1>7, <2>1 DEF Failed, Err
<1>12. Walk'
  <2>1. \A i \in 1 .. Len(kreplies') : Num(kreplies'[i]) = i
    <3> HIDE DEF d, s, h
    <3> QED BY <1>3, <1>5, <1>7, SMTT(30)
  <2>2. Len(kreplies') = writer.at[kpos'].seq - 1
    BY <1>3, <1>4, <1>7
  <2> QED
    BY <1>1, <1>2, <1>4, <1>7, <1>8, <1>10, <2>1, <2>2, WalkFrame, ZenonT(30)
<1>13. History'
  <2>1. PICK W \in [0 .. LastAck -> SUBSET Bodies] : Path(W)
    BY <1>1, KernelFacts, Zenon DEF SInv, History
  <2>2. ~Failed(kreplies') => kstage' = W[writer.at[kpos'].seq - 1]
    <3>1. W[s] = T!Apply(W[s - 1], h.body, h.op)
      BY <1>1, <1>3, <2>1, Zenon DEF Path
    <3>2. ~Failed(kreplies) => kstage = W[s - 1]
      BY <1>3, <2>1, Zenon DEF Path
    <3>3. writer.at[kpos'].seq - 1 = s
      <4> HIDE DEF s
      <4> QED BY <1>3, <1>4, SMTT(30)
    <3> QED
      BY <3>1, <3>2, <3>3, <1>1, <1>11, Zenon
  <2>3. Path(W)'
    BY <2>1, <2>2, <1>1, <1>2, PathFrame, ZenonT(30) DEF Failed
  <2> QED
    BY <2>1, <2>3, <1>2, Zenon DEF History
<1> QED
  BY <1>1, <1>12, <1>13, WalkingStep, ZenonT(30)

LEMMA KRefuseStep ==
  ASSUME SInv, KRefuse
  PROVE  SInv'
<1>1. /\ Working /\ writer.at[kpos].type = "BATCH_BEGIN" /\ kout' = "aborted"
      /\ Enqueue(kreplies') /\ UNCHANGED <<batchVars, sendVars, ruleset, kpos, kstage, want>>
  BY Zenon DEF KRefuse, request
<1>2. PICK e \in Errnos : kreplies' = <<Reply(writer.at[kpos], e)>>
  BY Zenon DEF KRefuse, request
<1> DEFINE d == Reply(writer.at[kpos], e)
<1>3. kpos = 0
  BY <1>1, KernelAt, Zenon
<1>4. d \in ReplyDatagrams /\ Err(d) = -e
  <2>1. IInv /\ kpos \in DOMAIN writer.at /\ writer.at[kpos].seq \in 0 .. LastAck
        /\ writer.at[kpos].type # "NFT" /\ e \in Errnos \cup {0}
    <3>1. LastAck \in Nat => 0 \in 0 .. LastAck
      BY SMTT(30)
    <3> QED
      BY <1>1, <1>3, <3>1, KernelFacts, KernelAt, Zenon
  <2> QED
    BY <2>1, AnswersRequest, SMTT(30)
<1>5. kreplies' \in Seq(ReplyDatagrams) /\ Len(kreplies') = 1 /\ Err(kreplies'[1]) # 0
  <2> HIDE DEF d
  <2>1. kreplies' = <<d>>
    BY <1>2 DEF d
  <2> QED
    BY <2>1, <1>4, ErrnosAssumption
<1>6. Verdicts'
  BY <1>1, <1>5 DEF Verdicts
<1>7. ruleset' \subseteq Bodies
  BY <1>1, KernelAt, Zenon
<1> QED
  BY <1>1, <1>5, <1>6, <1>7, VerdictStep, ZenonT(30)

(* At BATCH_END every request has been answered.                           *)
LEMMA AllAnswered ==
  ASSUME SInv, Working, writer.at[kpos].type = "BATCH_END"
  PROVE  /\ kpos # 0 /\ writer.at[kpos].seq = LastAck + 1 /\ Len(kreplies) = LastAck
         /\ \A i \in 1 .. Len(kreplies) : Num(kreplies[i]) = i
<1>1. /\ kpos # 0 /\ writer.at[kpos].seq = LastAck + 1 /\ LastAck \in Nat
      /\ Len(kreplies) = writer.at[kpos].seq - 1
      /\ \A i \in 1 .. Len(kreplies) : Num(kreplies[i]) = i
  BY KernelFacts, KernelAt, Zenon
<1>2. Len(kreplies) = LastAck
  BY <1>1, SMTT(30)
<1> QED
  BY <1>1, <1>2, Zenon

LEMMA KCommitStep ==
  ASSUME SInv, KCommit
  PROVE  SInv' /\ ruleset' = want
<1>1. /\ Working /\ writer.at[kpos].type = "BATCH_END" /\ ~Failed(kreplies)
      /\ kout' = "committed" /\ ruleset' = kstage /\ kreplies' = kreplies
      /\ Enqueue(kreplies') /\ UNCHANGED <<batchVars, sendVars, kpos, kstage, want>>
  BY SMTT(30) DEF KCommit, request
<1>2. kreplies \in Seq(ReplyDatagrams) /\ kstage \subseteq Bodies /\ LastAck \in Nat
  BY <1>1, KernelFacts, KernelAt, Zenon
<1>3. Verdicts'
  <2>1. \A i \in 1 .. Len(kreplies) : Err(kreplies[i]) = 0
    BY <1>1 DEF Failed, Err
  <2>2. LastAck' = LastAck
    BY <1>1, Zenon DEF batchVars, LastAck
  <2> QED
    BY <1>1, <2>1, <2>2, AllAnswered DEF Verdicts
<1>4. kstage = want
  <2>1. PICK W \in [0 .. LastAck -> SUBSET Bodies] : Path(W)
    BY <1>1, KernelFacts, Zenon DEF SInv, History
  <2>2. kpos # 0 /\ writer.at[kpos].seq = LastAck + 1
    BY <1>1, AllAnswered, Zenon
  <2>3. writer.at[kpos].seq - 1 = LastAck
    BY <2>2, <1>2, SMTT(30)
  <2> QED
    BY <2>1, <2>2, <2>3, <1>1, Zenon DEF Path
<1> QED
  BY <1>1, <1>2, <1>3, <1>4, VerdictStep, Zenon

LEMMA KAbortStep ==
  ASSUME SInv, KAbort
  PROVE  SInv'
<1>1. /\ Working /\ writer.at[kpos].type = "BATCH_END" /\ kout' = "aborted"
      /\ Enqueue(kreplies') /\ UNCHANGED <<batchVars, sendVars, ruleset, kpos, kstage, want>>
  BY Zenon DEF KAbort, request
<1>2. kreplies \in Seq(ReplyDatagrams) /\ ruleset' \subseteq Bodies /\ LastAck \in Nat
      /\ LastAck' = LastAck
  BY <1>1, KernelFacts, KernelAt, Zenon DEF batchVars, LastAck
<1>3. CASE Failed(kreplies) /\ kreplies' = kreplies
  <2>1. PICK i \in 1 .. Len(kreplies) :
               Err(kreplies[i]) # 0 /\ \A j \in 1 .. i - 1 : Err(kreplies[j]) = 0
    BY <1>1, <1>3, KernelAt, Zenon DEF FirstError
  <2>2. \A j \in 1 .. i - 1 : Benign(kreplies[j])'
    <3>1. Len(kreplies) = LastAck /\ \A j \in 1 .. Len(kreplies) : Num(kreplies[j]) = j
      BY <1>1, AllAnswered, Zenon
    <3> SUFFICES ASSUME NEW j \in 1 .. i - 1 PROVE Benign(kreplies[j])'
      BY Zenon
    <3>2. j \in 1 .. Len(kreplies) /\ j < LastAck
      BY <1>2, <3>1, <2>1, SMTT(30)
    <3>3. Err(kreplies[j]) = 0 /\ Num(kreplies[j]) < LastAck
      BY <2>1, <3>1, <3>2, Zenon
    <3> QED
      BY <1>2, <1>3, <3>3, Zenon DEF Benign
  <2>3. Verdicts'
    BY <1>1, <1>3, <2>1, <2>2, ZenonT(30) DEF Verdicts
  <2> QED
    BY <1>1, <1>2, <1>3, <2>3, VerdictStep, Zenon
<1>4. CASE \E e \in Errnos : kreplies' = <<Reply(writer.at[0], e)>> \o kreplies
  <2>1. PICK e \in Errnos : kreplies' = <<Reply(writer.at[0], e)>> \o kreplies
    BY <1>4
  <2> DEFINE d == Reply(writer.at[0], e)
  <2>2. d \in ReplyDatagrams /\ Err(d) = -e
    <3>1. IInv /\ 0 \in DOMAIN writer.at /\ writer.at[0].seq \in 0 .. LastAck
          /\ writer.at[0].type # "NFT" /\ e \in Errnos \cup {0}
      <4>1. 0 \in 0 .. LastAck
        BY <1>2, SMTT(30)
      <4> QED
        BY <1>1, <4>1, KernelFacts, KernelAt, Zenon
    <3> QED
      BY <3>1, AnswersRequest, SMTT(30)
  <2>3. kreplies' \in Seq(ReplyDatagrams) /\ Len(kreplies') \in Nat /\ Len(kreplies') >= 1
        /\ Err(kreplies'[1]) # 0
    <3> HIDE DEF d
    <3>1. kreplies' = <<d>> \o kreplies
      BY <2>1 DEF d
    <3>2. kreplies' \in Seq(ReplyDatagrams) /\ Len(kreplies') = 1 + Len(kreplies)
          /\ kreplies'[1] = d
      <4>1. d \in ReplyDatagrams /\ kreplies \in Seq(ReplyDatagrams)
        BY <2>2, <1>2, Zenon
      <4> QED
        BY <3>1, <4>1
    <3> QED
      BY <3>2, <2>2, <1>2, ErrnosAssumption
  <2>4. Verdicts'
    BY <1>1, <2>3 DEF Verdicts
  <2> QED
    BY <1>1, <1>2, <2>3, <2>4, VerdictStep, Zenon
<1> QED
  BY <1>3, <1>4 DEF KAbort

-----------------------------------------------------------------------------
(* The steps of the sender.                                                *)

LEMMA OpenSocketStep ==
  ASSUME SInv, OpenSocket \/ BindFails
  PROVE  SInv'
<1>1. /\ sendPc \in {"build", "opened"} /\ answer = "none" /\ kout = "none"
      /\ UNCHANGED <<batchVars, recvVars, kernelVars, want>>
      /\ \/ sendPc = "build" /\ sendPc' = "opened" /\ fd' = "open" /\ UNCHANGED answer
         \/ sendPc = "build" /\ sendPc' = "returned" /\ fd' = "none" /\ answer' = "NetlinkOpenError"
         \/ sendPc' = "returned" /\ UNCHANGED fd /\ answer' = "Panic"
  BY DEF SInv, Progress, OpenSocket, BindFails, Return
<1>2. UNCHANGED <<kout, phase, kpos, pc, inbox, sockErr, LastAck, maxSeq, cb>>
  BY <1>1 DEF batchVars, recvVars, kernelVars, LastAck
<1>3. Progress'
  BY <1>1, <1>2 DEF SInv, Progress
<1>4. IInv' /\ Walk' /\ History' /\ Verdicts' /\ Reception'
  BY <1>1, BatchFrame, KernelFrame, ReceptionFrame, SMTT(30) DEF SInv
<1>5. Meaning' /\ ReportsFirstError' /\ AllAcksRead' /\ SocketReleased'
  BY <1>1, <1>2 DEF Meaning, Answers, ReportsFirstError, AllAcksRead, SocketReleased
<1> QED
  BY <1>3, <1>4, <1>5 DEF SInv

LEMMA Appended ==
  ASSUME IInv, NEW h, AppendedTo(h)
  PROVE  /\ DOMAIN writer'.at = DOMAIN writer.at \cup {writer.len}
         /\ writer.len \notin DOMAIN writer.at
         /\ writer'.at[writer.len] = h
         /\ \A o \in DOMAIN writer.at : writer'.at[o] = writer.at[o]
<1>1. writer'.at = Put(writer.at, writer.len, h)
  BY DEF AppendedTo
<1>2. writer.len \in Nat /\ DOMAIN writer.at \subseteq 0 .. (writer.len - 1)
  BY DEF IInv, BatchTypeOK
<1> QED
  BY <1>1, <1>2 DEF Put

(* One more request is one more step of the path.                          *)
LEMMA ComposeStep ==
  ASSUME SInv, NEW b \in Bodies, NEW t \in {"Add", "Del"}, Compose(b, t)
  PROVE  SInv'
<1>1. /\ sendPc = "build" /\ Add(b, t) /\ phase = "open" /\ fd = "none" /\ answer = "none"
      /\ kout = "none" /\ kpos = 0 /\ pc = "idle" /\ inbox = <<>> /\ sockErr = "none"
      /\ want' = T!Apply(want, b, t)
      /\ UNCHANGED <<recvVars, sendVars, kernelVars>>
  BY DEF SInv, Progress, Compose
<1>2. /\ UNCHANGED <<inbox, sockErr, pc, sendPc, fd, answer, ruleset, kpos, kstage, kreplies, kout>>
      /\ phase' = "open" /\ seq' = seq + 1
  BY <1>1 DEF recvVars, sendVars, kernelVars, Add
<1>3. IInv /\ IInv'
  BY <1>1, AddStep DEF SInv
<1>4. LastAck \in Nat /\ LastAck' = LastAck + 1 /\ seq = LastAck + 1
  BY <1>2, <1>3, ObjectsAssumption, SMTT(30) DEF LastAck, IInv, BatchTypeOK
<1>5. PICK h \in Requests :
        AppendedTo(h) /\ h.seq = seq /\ h.type = "NFT" /\ h.body = b /\ h.op = t
  BY <1>1, <1>3, AddAppends, SMTT(30)
<1>6. /\ DOMAIN writer'.at = DOMAIN writer.at \cup {writer.len}
      /\ writer'.at[writer.len] = h
      /\ \A o \in DOMAIN writer.at : writer'.at[o] = writer.at[o]
  BY <1>3, <1>5, Appended, Zenon
<1>7. want' \subseteq Bodies
  BY <1>1, ZenonT(30) DEF SInv, Walk, T!Apply
<1>8. Len(kreplies) = 0
  BY <1>1, ZenonT(30) DEF SInv, Walk
<1>9. ASSUME NEW o \in DOMAIN writer'.at, writer'.at[o].type = "NFT"
      PROVE  writer'.at[o].body \in Bodies /\ writer'.at[o].seq \in 1 .. LastAck'
  <2>1. LastAck' \in 1 .. LastAck' /\ \A i \in 1 .. LastAck : i \in 1 .. LastAck'
    BY <1>4, SMTT(30)
  <2>2. CASE o = writer.len
    <3>1. seq = LastAck'
      BY <1>4, Zenon
    <3> QED
      BY <1>5, <1>6, <2>1, <2>2, <3>1, Zenon
  <2>3. CASE o \in DOMAIN writer.at
    <3>1. writer'.at[o] = writer.at[o] /\ writer.at[o].type = "NFT"
      BY <1>6, <1>9, <2>3, Zenon
    <3>2. writer.at[o].body \in Bodies /\ writer.at[o].seq \in 1 .. LastAck
      BY <2>3, <3>1, Zenon DEF SInv, Walk
    <3> QED
      BY <2>1, <3>1, <3>2, Zenon
  <2> QED
    BY <1>6, <2>2, <2>3, Zenon
<1>10. Walk'
  BY <1>1, <1>2, <1>6, <1>7, <1>8, <1>9, Zenon DEF SInv, Walk
<1>11. History'
  <2>1. PICK W \in [0 .. LastAck -> SUBSET Bodies] : Path(W)
    BY <1>1 DEF SInv, History
  <2>2. PICK V \in [0 .. LastAck' -> SUBSET Bodies] :
          V[LastAck'] = want' /\ \A i \in 0 .. LastAck : V[i] = W[i]
    <3> DEFINE U == [i \in 0 .. LastAck' |-> IF i = LastAck' THEN want' ELSE W[i]]
    <3>1. U \in [0 .. LastAck' -> SUBSET Bodies]
      BY <1>4, <1>7, <2>1
    <3>2. U[LastAck'] = want' /\ \A i \in 0 .. LastAck : U[i] = W[i]
      BY <1>4
    <3> QED BY <3>1, <3>2, Zenon
  <2>3. V[0] = W[0] /\ V[LastAck] = W[LastAck]
    <3>1. 0 \in 0 .. LastAck /\ LastAck \in 0 .. LastAck
      BY <1>4, SMTT(30)
    <3> QED
      BY <3>1, <2>2, Zenon
  <2>4. ASSUME NEW o \in DOMAIN writer'.at, writer'.at[o].type = "NFT"
        PROVE  V[writer'.at[o].seq] =
                 T!Apply(V[writer'.at[o].seq - 1], writer'.at[o].body, writer'.at[o].op)
    <3>1. CASE o = writer.len
      <4>1. writer'.at[o].seq = LastAck' /\ writer'.at[o].seq - 1 = LastAck
        <5>1. writer'.at[o].seq = seq
          BY <3>1, <1>5, <1>6, Zenon
        <5> QED
          BY <5>1, <1>4, SMTT(30)
      <4>2. V[LastAck'] = T!Apply(V[LastAck], b, t)
        BY <2>1, <2>2, <2>3, <1>1, Zenon DEF Path
      <4> QED
        BY <3>1, <4>1, <4>2, <1>5, <1>6, ZenonT(30)
    <3>2. CASE o \in DOMAIN writer.at
      <4> DEFINE s == writer.at[o].seq
      <4>1. writer'.at[o] = writer.at[o] /\ writer.at[o].type = "NFT"
        BY <3>2, <2>4, <1>6, Zenon
      <4>2. s \in 1 .. LastAck
        BY <3>2, <4>1, ZenonT(30) DEF SInv, Walk
      <4>3. W[s] = T!Apply(W[s - 1], writer.at[o].body, writer.at[o].op)
        BY <3>2, <4>1, <2>1, ZenonT(30) DEF Path
      <4>4. V[s] = W[s] /\ V[s - 1] = W[s - 1]
        <5> HIDE DEF s
        <5>1. s \in 0 .. LastAck /\ s - 1 \in 0 .. LastAck
          BY <4>2, <1>4, SMTT(30)
        <5> QED
          BY <5>1, <2>2, Zenon
      <4> QED
        BY <4>1, <4>3, <4>4, Zenon
    <3> QED
      BY <1>6, <3>1, <3>2, Zenon
  <2>5. Path(V)'
    <3>1. V[0] = ruleset' /\ V[LastAck'] = want' /\ kpos' = 0
      BY <2>1, <2>2, <2>3, <1>1, <1>2, Zenon DEF Path
    <3> QED
      BY <2>4, <3>1, Zenon DEF Path, T!Apply
  <2> QED
    BY <2>2, <2>5 DEF History
<1>12. Progress' /\ Verdicts' /\ Reception'
  BY <1>1, <1>2 DEF SInv, Progress, Verdicts, Reception
<1>13. Meaning' /\ ReportsFirstError' /\ AllAcksRead' /\ SocketReleased'
  BY <1>1, <1>2, Unanswered
<1> QED
  BY <1>3, <1>10, <1>11, <1>12, <1>13 DEF SInv

(* finalize() adds no request to the path.                                 *)
LEMMA SubmitStep ==
  ASSUME SInv, Submit
  PROVE  SInv'
<1>1. /\ sendPc = "opened" /\ Finalize /\ phase = "open" /\ fd = "open" /\ answer = "none"
      /\ kout = "none" /\ kpos = 0 /\ pc = "idle" /\ inbox = <<>> /\ sockErr = "none"
      /\ \/ sendPc' = "sending" /\ answer' = "none"
         \/ sendPc' = "returned" /\ answer' = "NetlinkSendError"
      /\ UNCHANGED <<recvVars, kernelVars, fd, want>>
  BY DEF SInv, Progress, Submit, Return
<1>2. /\ UNCHANGED <<inbox, sockErr, pc, fd, ruleset, kpos, kstage, kreplies, kout, want>>
      /\ phase' = "finalized" /\ seq' = seq /\ LastAck' = LastAck
  BY <1>1 DEF recvVars, kernelVars, Finalize, LastAck
<1>3. IInv /\ IInv'
  BY <1>1, FinalizeStep DEF SInv
<1>4. PICK h \in Requests : AppendedTo(h) /\ h.type = "BATCH_END"
  BY <1>1, <1>3, FinalizeAppends
<1>5. /\ DOMAIN writer'.at = DOMAIN writer.at \cup {writer.len}
      /\ writer'.at[writer.len] = h
      /\ \A o \in DOMAIN writer.at : writer'.at[o] = writer.at[o]
  BY <1>3, <1>4, Appended
<1>6. \A o \in DOMAIN writer'.at : writer'.at[o].type = "NFT" =>
        o \in DOMAIN writer.at /\ writer'.at[o] = writer.at[o]
  BY <1>4, <1>5, SMTT(30)
<1>7. Walk'
  BY <1>1, <1>2, <1>5, <1>6, Zenon DEF SInv, Walk, Num
<1>8. History'
  <2>1. PICK W \in [0 .. LastAck -> SUBSET Bodies] : Path(W)
    BY <1>1 DEF SInv, History
  <2>2. Path(W)'
    BY <2>1, <1>1, <1>2, <1>6, ZenonT(30) DEF Path, T!Apply
  <2> QED
    BY <2>1, <2>2, <1>2 DEF History
<1>9. Progress' /\ Verdicts' /\ Reception'
  BY <1>1, <1>2, ZenonT(30) DEF SInv, Progress, Verdicts, Reception
<1>10. Meaning' /\ ReportsFirstError' /\ AllAcksRead' /\ SocketReleased'
  BY <1>1, <1>2 DEF Meaning, Answers, ReportsFirstError, AllAcksRead, SocketReleased
<1> QED
  BY <1>3, <1>7, <1>8, <1>9, <1>10 DEF SInv

-----------------------------------------------------------------------------
(* The steps together.                                                     *)

LEMMA InitSInv == Init => SInv
<1> SUFFICES ASSUME Init PROVE SInv
  OBVIOUS
<1>1. IInv
  BY InitIInv DEF Init
<1>2. /\ sendPc = "build" /\ fd = "none" /\ answer = "none" /\ kpos = 0 /\ kout = "none"
      /\ kreplies = <<>> /\ ruleset \subseteq Bodies /\ want = ruleset /\ kstage = ruleset
      /\ pc = "idle" /\ inbox = <<>> /\ sockErr = "none" /\ seq = 1 /\ phase = "open"
  BY DEF Init, R!Idle, BatchInit
<1>3. Progress /\ Verdicts /\ Reception
  BY <1>2, SMTT(30) DEF Progress, Verdicts, Reception
<1>4. Meaning /\ ReportsFirstError /\ AllAcksRead /\ SocketReleased
  BY <1>2 DEF Meaning, Answers, ReportsFirstError, AllAcksRead, SocketReleased
<1>5. DOMAIN writer.at = {0} /\ writer.at[0].type = "BATCH_BEGIN"
  BY InitIInv, SMTT(30) DEF Init
<1>6. Walk
  BY <1>2, <1>5 DEF Walk, Failed
<1>7. History
  <2> DEFINE W == [i \in 0 .. LastAck |-> ruleset]
  <2>1. W \in [0 .. LastAck -> SUBSET Bodies] /\ LastAck = 0
    BY <1>2, SMTT(30) DEF LastAck
  <2>2. Path(W)
    BY <1>2, <1>5, <2>1 DEF Path
  <2> QED
    BY <2>1, <2>2 DEF History
<1> QED
  BY <1>1, <1>3, <1>4, <1>6, <1>7 DEF SInv

LEMMA StutterStep ==
  ASSUME SInv, UNCHANGED vars
  PROVE  SInv'
<1>1. UNCHANGED <<batchVars, kernelVars, recvVars, sendVars, want>>
  BY DEF vars
<1>2. IInv' /\ Walk' /\ History' /\ Verdicts' /\ Reception'
  BY <1>1, BatchFrame, KernelFrame, ReceptionFrame DEF SInv
<1>3. UNCHANGED <<sendPc, fd, answer, kout, kpos, kreplies, inbox, sockErr, errno, pc, phase,
                  maxSeq, cb, LastAck>>
  BY <1>1, SMTT(30) DEF batchVars, kernelVars, recvVars, sendVars, LastAck
<1>4. Progress' /\ Meaning' /\ AllAcksRead' /\ SocketReleased'
  BY <1>3, SMT, SMTT(30) DEF SInv, Progress, Meaning, AllAcksRead, SocketReleased
<1>5. ReportsFirstError'
  BY <1>3, Zenon DEF SInv, ReportsFirstError, R!Abs
<1> QED
  BY <1>2, <1>4, <1>5 DEF SInv

LEMMA NextSInv ==
  ASSUME SInv, [Next]_vars
  PROVE  SInv'
<1>1. ASSUME NEW b \in Bodies, NEW t \in {"Add", "Del"}, Compose(b, t) PROVE SInv'
  BY <1>1, ComposeStep
<1>2. CASE OpenSocket \/ BindFails
  BY <1>2, OpenSocketStep
<1>3. CASE Submit
  BY <1>3, SubmitStep
<1>4. CASE Collect
  BY <1>4, CollectStep
<1>5. CASE Receive
  BY <1>5, ReceiveStep
<1>6. CASE Close
  BY <1>6, CloseStep
<1>7. CASE KRefuse
  BY <1>7, KRefuseStep
<1>8. CASE KBegin
  BY <1>8, KBeginStep
<1>9. CASE KCommit
  BY <1>9, KCommitStep
<1>10. CASE KAbort
  BY <1>10, KAbortStep
<1>11. ASSUME NEW e \in Errnos \cup {0}, KExecute(e) PROVE SInv'
  BY <1>11, KExecuteStep
<1>12. CASE UNCHANGED vars
  BY <1>12, StutterStep
<1> QED
  BY <1>1, <1>2, <1>3, <1>4, <1>5, <1>6, <1>7, <1>8, <1>9, <1>10, <1>11, <1>12
  DEF Next, Send, Kernel

LEMMA SendInvariant == Spec => []SInv
<1>1. Init => SInv
  BY InitSInv, Zenon
<1>2. SInv /\ [Next]_vars => SInv'
  BY NextSInv
<1> QED
  BY <1>1, <1>2, PTL DEF Spec

-----------------------------------------------------------------------------
(* send() keeps its types; of the decoding errors of recv_and_process()    *)
(* only NlMsgTooSmall can come out of it, whatever the kernel answers to   *)
(* the requests (TypeOK).                                                  *)
THEOREM SendTypeOK == Spec => []TypeOK
<1>1. SInv => TypeOK
  BY DEF SInv, Progress, Walk, Meaning, TypeOK
<1> QED
  BY <1>1, SendInvariant, PTL

(* An error that send() reports is the first one that the kernel gave for  *)
(* the batch, however many requests failed and however many                *)
(* acknowledgements came before it (ReportsFirstError).                    *)
THEOREM SendReportsFirstError == Spec => []ReportsFirstError
<1>1. SInv => ReportsFirstError
  BY DEF SInv
<1> QED
  BY <1>1, SendInvariant, PTL

(* Only a failed send() or bind() returns with the socket open             *)
(* (SocketReleased).                                                       *)
THEOREM SendSocketReleased == Spec => []SocketReleased
<1>1. SInv => SocketReleased
  BY DEF SInv
<1> QED
  BY <1>1, SendInvariant, PTL

(* When send() returns Ok it has read every answer (AllAcksRead).          *)
THEOREM SendAllAcksRead == Spec => []AllAcksRead
<1>1. SInv => AllAcksRead
  BY DEF SInv
<1> QED
  BY <1>1, SendInvariant, PTL

-----------------------------------------------------------------------------
(* The refinement: the kernel's verdict and the return of send() are the   *)
(* only steps that the caller of a transaction can see.                    *)

LEMMA InitRefines == Init => T!Init
BY DEF Init, T!Init, Stage

LEMMA StepRefines ==
  ASSUME SInv, SInv', [Next]_vars
  PROVE  [T!Next]_(T!transVars)
<1> USE DEF T!transVars
<1>1. ASSUME NEW b \in Bodies, NEW t \in {"Add", "Del"}, Compose(b, t)
      PROVE  T!Next
  <2>1. Stage = "open" /\ Stage' = Stage /\ UNCHANGED ruleset /\ want' = T!Apply(want, b, t)
    BY <1>1 DEF SInv, Progress, Compose, sendVars, kernelVars, Stage
  <2> QED
    BY <2>1 DEF T!Next, T!Request
<1>2. CASE OpenSocket \/ BindFails \/ Submit
  <2>1. Stage = "open" /\ Stage' \in {"open", "refused"} /\ UNCHANGED <<ruleset, want>>
    BY <1>2 DEF SInv, Progress, OpenSocket, BindFails, Submit, Return, kernelVars, Stage
  <2> QED
    BY <2>1 DEF T!Next, T!Answer
<1>3. CASE Collect \/ Receive \/ KBegin \/ UNCHANGED vars
  <2>1. UNCHANGED <<answer, kout, ruleset, want>>
    BY <1>3 DEF Collect, Receive, KBegin, vars, sendVars, kernelVars
  <2> QED
    BY <2>1 DEF Stage
<1>4. ASSUME NEW e \in Errnos \cup {0}, KExecute(e) PROVE UNCHANGED T!transVars
  <2>1. UNCHANGED <<answer, kout, ruleset, want>>
    BY <1>4, Zenon DEF KExecute, sendVars
  <2> QED
    BY <2>1, SMTT(30) DEF Stage
<1>5. CASE Close
  <2>1. /\ sendPc = "receiving" /\ answer = "none" /\ kout \in {"committed", "aborted"}
        /\ pc = "returned" /\ answer' \in {result, "CloseFailed"}
        /\ UNCHANGED <<kout, ruleset, want>>
    BY <1>5, Zenon DEF SInv, Progress, Walk, Close, Return, kernelVars
  <2>2. Stage = kout
    BY <2>1 DEF Stage
  <2>3. CASE kout = "committed"
    <3>1. answer' \in {"Ok", "NetlinkRecvError", "CloseFailed"}
      BY <2>1, <2>3, Conclusion
    <3> QED
      BY <2>1, <2>2, <2>3, <3>1, Zenon DEF Stage, T!Next, T!Answer
  <2>4. CASE kout = "aborted"
    <3>1. answer' \in {"NetlinkError", "NlMsgTooSmall", "NetlinkRecvError", "CloseFailed"}
      BY <2>1, <2>4, Conclusion
    <3> QED
      BY <2>1, <2>2, <2>4, <3>1, Zenon DEF Stage, T!Next, T!Answer
  <2> QED
    BY <2>1, <2>3, <2>4, SMT, SMTT(30)
<1>6. CASE KRefuse \/ KAbort
  <2>1. answer = "none" /\ answer' = "none" /\ kout = "none" /\ kout' = "aborted"
        /\ UNCHANGED <<ruleset, want>>
    BY <1>6 DEF SInv, Progress, KRefuse, KAbort, Working, sendVars
  <2> QED
    BY <2>1, Zenon DEF Stage, T!Next, T!Abort
<1>7. CASE KCommit
  <2>1. answer = "none" /\ answer' = "none" /\ kout = "none" /\ kout' = "committed"
        /\ UNCHANGED want
    BY <1>7 DEF SInv, Progress, KCommit, Working, sendVars
  <2>2. ruleset' = want
    BY <1>7, KCommitStep
  <2> QED
    BY <2>1, <2>2, Zenon DEF Stage, T!Next, T!Commit
<1> QED
  BY <1>1, <1>2, <1>3, <1>4, <1>5, <1>6, <1>7 DEF Next, Send, Kernel

(* Batch::send() implements Transaction: the ruleset changes as a whole,   *)
(* to what the calls to add() describe, or not at all, and the answer      *)
(* tells which, unless it is NetlinkRecvError or the error of close()      *)
(* (Atomic).                                                               *)
THEOREM SendIsAtomic == Spec => Atomic
<1>1. Init => T!Init
  BY InitRefines
<1>2. SInv /\ SInv' /\ [Next]_vars => [T!Next]_(T!transVars)
  BY StepRefines
<1> QED
  BY <1>1, <1>2, SendInvariant, PTL DEF Spec, Atomic, T!Spec

=============================================================================
