--------------------------- MODULE ListingProofs ----------------------------
(***************************************************************************)
(* A listing against any kernel store, any number of objects, generations  *)
(* and objects in a datagram: a listing that ends well returns one         *)
(* generation of the ruleset, never loses the framing of the dump, and     *)
(* closes its socket, although the kernel may refuse the request and any   *)
(* recv() may fail.                                                        *)
(*                                                                         *)
(* First the inductive invariant and the steps that start a dump, change   *)
(* the store under it, fill the inbox and close the socket; then the       *)
(* receive loop; then what the request and the callback select.  The       *)
(* receive buffer is the business of RecvLoopProofs, whose invariant is    *)
(* used here for the datagrams of a dump.                                  *)
(***************************************************************************)
EXTENDS Listing, WellFoundedInduction, TLAPS

(* Every well-formed datagram that a message buffer has room for.          *)
AllDatagrams ==
  {d \in [size : Nat, at : UNION {[S -> Messages] : S \in SUBSET Nat}] :
     WellFormed(d) /\ d.size <= MaxSize}

RP == INSTANCE RecvLoopProofs WITH Datagrams <- AllDatagrams, MaxSeqs <- {},
                                   MaxInbox <- 0, MaxAcc <- 0

-----------------------------------------------------------------------------
(* The offset of the k-th object of a datagram.                            *)
Off(k) == k * ObjLen

LEMMA OffFacts ==
  /\ \A k \in Nat : Off(k) \in Nat /\ Off(k + 1) = Off(k) + ObjLen
  /\ Off(0) = 0
  /\ \A k, n \in Nat : k < n => Off(k) + ObjLen <= Off(n)
  /\ \A k \in Nat : Off(k) \div ObjLen = k
<1>1. ObjLen \in Nat /\ ObjLen >= 20
  BY DumpAssumption DEF SizeOfNlmsghdr, SizeOfNfgenmsg
<1>2. \A k \in Nat : Off(k) \in Nat /\ Off(k + 1) = Off(k) + ObjLen
  BY <1>1 DEF Off
<1>3. \A k, n \in Nat : k < n => Off(k) + ObjLen <= Off(n)
  BY <1>1 DEF Off
<1>4. \A k \in Nat : Off(k) \div ObjLen = k
  BY <1>1 DEF Off
<1> QED
  BY <1>1, <1>2, <1>3, <1>4 DEF Off

-----------------------------------------------------------------------------
(* The invariant.                                                          *)

Decoded(b) == IF b \in Bodies \ Opaque THEN b ELSE Undecodable

IsObject(m) ==
  m.type = "NFT" /\ m.len = ObjLen /\ "MULTI" \in m.flags /\ m.version = NFNETLINK_V0

IsDone(m) == m.type = "DONE" /\ m.len = DoneLen

IsRefusal(m) == m.type = "ERROR" /\ m.error \in Int \ {0} /\ m.flags = {}

(* From offset o on there are r objects and, if e, NLMSG_DONE.             *)
Holds(at, o, r, e) ==
  /\ \A k \in 0 .. r - 1 : o + Off(k) \in DOMAIN at /\ IsObject(at[o + Off(k)])
  /\ e => o + Off(r) \in DOMAIN at /\ IsDone(at[o + Off(r)])

SizeOf(r, e) == Off(r) + (IF e THEN DoneLen ELSE 0)

(* The objects are those of s after the first n.                           *)
Carries(at, o, r, s, n) ==
  \A k \in 0 .. r - 1 : at[o + Off(k)].body = Decoded(s[n + 1 + k])

(* What is unread in the buffer, and what is in the socket's queue.        *)
Buffer(r, e) == endPos = bufStart + SizeOf(r, e) /\ Holds(mem, bufStart, r, e)

Queue(n, e) ==
  \/ inbox = <<>> /\ n = 0 /\ e = FALSE
  \/ /\ inbox # <<>> /\ Len(inbox) = 1 /\ (n > 0 \/ e)
     /\ inbox[1].size = SizeOf(n, e) /\ Holds(inbox[1].at, 0, n, e)

(* The objects received, those in the buffer and those in the queue follow *)
(* each other in the answer s to the request, up to `sent`.                *)
Follows(s, r, n) ==
  /\ sent = Len(acc) + r + n
  /\ \A i \in 1 .. sent : i \in DOMAIN s
  /\ ~dumping => sent + 1 \notin DOMAIN s
  /\ \A i \in 1 .. Len(acc) : acc[i] = s[i]
  /\ Carries(mem, bufStart, r, s, Len(acc))
  /\ inbox # <<>> => Carries(inbox[1].at, 0, n, s, Len(acc) + r)

Fresh(r, n) ==
  \/ dumpGen = 0 /\ sent = 0 /\ r = 0 /\ n = 0 /\ acc = <<>> /\ dumping
  \/ dumpGen \in 1 .. gen /\ Follows(Dump(past[dumpGen], request), r, n)

(* The next message, or the one at the head of the queue, will tell that   *)
(* the ruleset has changed.                                                *)
Interrupted ==
  /\ dumpGen # 0
  /\ \/ bufStart # endPos /\ "DUMP_INTR" \in mem[bufStart].flags
     \/ inbox # <<>> /\ "DUMP_INTR" \in inbox[1].at[0].flags

Position ==
  \E r, n \in Nat : \E e, f \in BOOLEAN :
    /\ Buffer(r, e) /\ Queue(n, f)
    /\ e \/ f => ~dumping
    /\ e => inbox = <<>>
    /\ Fresh(r, n) \/ Interrupted

(* The refusal of the request is all that was sent, and is still unread.   *)
Refused ==
  /\ ~dumping
  /\ \/ /\ bufStart = endPos /\ Len(inbox) = 1
        /\ 0 \in DOMAIN inbox[1].at /\ IsRefusal(inbox[1].at[0])
     \/ /\ bufStart # endPos /\ inbox = <<>>
        /\ bufStart \in DOMAIN mem /\ IsRefusal(mem[bufStart])

(* The header of the request that get_list_of_objects() writes.            *)
Header(h) == h.seq = 0 /\ h.len \in {HeadersLen, HeadersLen + Pad(FilterSize)}

(* What recv_and_process() may return to a listing.                        *)
Outcomes == {"Ok", "ConcurrentGenerationUpdate", "UndecodableObject", "NetlinkError",
             "NetlinkRecvError"}

Phases ==
  /\ listPc = "start" => fd = "none"
  /\ listPc \in {"opened", "receiving"} => fd = "open"
  /\ listPc \in {"start", "opened"} => pc = "idle"
  /\ listPc = "receiving" => pc # "idle"
  /\ listPc # "returned" => answer = "none"
  /\ pc = "idle" => inbox = <<>> /\ ~dumping /\ sent = 0 /\ dumpGen = 0
  /\ pc # "idle" => maxSeq = R!NoSeq /\ cb = "decode" /\ Header(request)
  /\ pc # "returned" => result = "none"
  /\ pc = "returned" => result \in Outcomes
  /\ past[gen] = objs

LInv ==
  /\ RP!IInv /\ TypeOK /\ Phases /\ WholeDump /\ SocketReleased
  /\ pc \in {"recv", "parse"} => Position \/ Refused

-----------------------------------------------------------------------------
(* The receive loop, by RecvLoopProofs.                                    *)

LEMMA Premises ==
  /\ Undecodable \notin Bodies /\ MaxSize \in Nat \ {0} /\ {} \subseteq Nat
  /\ \A d \in AllDatagrams : RP!WellFormed(d) /\ d.size <= MaxSize
<1>1. ASSUME NEW d, WellFormed(d) PROVE RP!WellFormed(d)
  BY <1>1 DEF WellFormed, RP!WellFormed, Messages, RP!Messages, MsgTypes, RP!MsgTypes,
     MinLen, RP!MinLen, Tiles, RP!Tiles, Pad, RP!Pad, NLMSG_ALIGNTO, RP!NLMSG_ALIGNTO,
     SizeOfNlmsghdr, RP!SizeOfNlmsghdr, SizeOfNlmsgerr, RP!SizeOfNlmsgerr,
     SizeOfNfgenmsg, RP!SizeOfNfgenmsg
<1>2. MaxSize \in Nat \ {0}
  <2>1. ChunkLen * ObjLen \in Nat
    BY DumpAssumption
  <2> QED
    BY <2>1, DumpAssumption DEF DoneLen, SizeOfNlmsghdr
<1> QED
  BY <1>1, <1>2, BodiesAssumption DEF AllDatagrams

LEMMA LoopBegins ==
  ASSUME RP!IInv, R!Begin(R!NoSeq, "decode")
  PROVE  RP!IInv'
<1>1. RP!Begin(RP!NoSeq, "decode")
  BY DEF R!Begin, RP!Begin, R!NoSeq, RP!NoSeq, R!EmptyMem, RP!EmptyMem
<1>2. RP!NoSeq \in Nat \cup {RP!NoSeq} /\ "decode" \in {"none", "decode"}
  OBVIOUS
<1> QED
  BY <1>1, <1>2, Premises, RP!BeginStep, Zenon

LEMMA LoopReceives ==
  ASSUME RP!IInv, R!Recv
  PROVE  RP!IInv' /\ endPos' = endPos + Head(inbox).size
<1>1. RP!Recv
  BY DEF R!Recv, RP!Recv, R!Store, RP!Store, R!Least, RP!Least, R!BufSize, RP!BufSize,
     R!args, RP!args
<1> QED
  BY <1>1, Premises, RP!RecvStep

LEMMA LoopHandles ==
  ASSUME RP!IInv, R!Handle
  PROVE  RP!IInv'
<1>1. \A a, m : R!ParseNlmsg(a, m) = RP!ParseNlmsg(a, m)
  BY DEF R!ParseNlmsg, RP!ParseNlmsg, R!GetNlmsghdr, RP!GetNlmsghdr, R!ParseControl,
     RP!ParseControl, R!ParseNfGenMsg, RP!ParseNfGenMsg, R!SizeOfNlmsghdr, RP!SizeOfNlmsghdr,
     R!SizeOfNlmsgerr, RP!SizeOfNlmsgerr, R!SizeOfNfgenmsg, RP!SizeOfNfgenmsg,
     R!NFNETLINK_V0, RP!NFNETLINK_V0
<1>2. \A p, m : R!Verdict(p, m) = RP!Verdict(p, m)
  BY DEF R!Verdict, RP!Verdict, R!DecodeErrors, RP!DecodeErrors, R!NoSeq, RP!NoSeq
<1>3. \A m : R!Advance(m) = RP!Advance(m) /\ \A x : R!Abs(x) = RP!Abs(x)
  BY DEF R!Advance, RP!Advance, R!Pad, RP!Pad, R!NLMSG_ALIGNTO, RP!NLMSG_ALIGNTO, R!Abs, RP!Abs
<1>4. RP!Handle
  BY <1>1, <1>2, <1>3 DEF R!Handle, RP!Handle, R!args, RP!args
<1> QED
  BY <1>4, Premises, RP!HandleStep

LEMMA LoopRelocates ==
  ASSUME RP!IInv, R!Relocate
  PROVE  RP!IInv'
<1>1. RP!Relocate
  BY DEF R!Relocate, RP!Relocate, R!NeedsRelocation, RP!NeedsRelocation, R!args, RP!args
<1> QED
  BY <1>1, Premises, RP!RelocateStep

LEMMA LoopFrame ==
  ASSUME RP!IInv, UNCHANGED recvVars
  PROVE  RP!IInv'
<1>1. UNCHANGED RP!vars
  BY DEF recvVars, RP!vars
<1> QED
  BY <1>1, Premises, RP!EnvironmentStep

LEMMA LoopFills ==
  ASSUME RP!IInv, inbox = <<>>, NEW d \in AllDatagrams, inbox' = <<d>>,
         UNCHANGED <<sockErr, mem, bufStart, endPos, maxSeq, cb, acc, pc, result, errno>>
  PROVE  RP!IInv'
BY DEF RP!IInv, RP!TypeOK, RP!Cursors, RP!Unread, RP!NeverMisreads, RP!BufSize, RP!NoSeq,
   RP!Results, RP!Tiles, RP!Messages, RP!MsgTypes, RP!MinLen

LEMMA LoopFacts ==
  ASSUME RP!IInv
  PROVE  /\ bufStart \in Nat /\ endPos \in Nat /\ bufStart <= endPos
         /\ inbox \in Seq(AllDatagrams) /\ acc \in Seq(Bodies) /\ Len(acc) \in Nat
         /\ \A o \in DOMAIN mem : mem[o] \in Messages
         /\ pc = "recv" => bufStart = endPos
         /\ result \notin {"Panic", "BufTooSmall", "NlMsgTooSmall"}
<1>1. RP!BufSize \in Nat
  BY Premises DEF RP!BufSize
<1> QED
  BY <1>1 DEF RP!IInv, RP!TypeOK, RP!Cursors, RP!NeverMisreads, RP!Messages, RP!MsgTypes, Messages, MsgTypes

-----------------------------------------------------------------------------
(* The steps before and after the receive loop.                            *)

(* The request as get_list_of_objects() writes it: for every family, with  *)
(* the names of the chain if rules are listed.                             *)
Filter(q) == IF q.op = "rules" THEN [table |-> q.table, chain |-> q.chain] ELSE NoBody

LEMMA RequestIs ==
  ASSUME NEW q
  PROVE  /\ GetListOfObjects(q).at[0].family = "Unspec" /\ GetListOfObjects(q).at[0].body = Filter(q)
         /\ Header(GetListOfObjects(q).at[0])
<1> DEFINE b == Filter(q)
           h == [type |-> "NFT", op |-> "Get", family |-> "Unspec", flags |-> {"REQUEST", "DUMP"}, seq |-> 0,
                 resId |-> "none", len |-> 0, body |-> b]
           opened == WriteHeader(EmptyWriter, h)
           w == IF q.op = "rules" THEN AddDataZeroed(opened, FilterSize) ELSE opened
<1>1. GetListOfObjects(q) = FinalizeWritingObject(w)
  BY Zenon DEF GetListOfObjects, Filter
<1> HIDE DEF b
<1> DEFINE w1 == AddDataZeroed(EmptyWriter, SizeOfNlmsghdr)
           hh == [h EXCEPT !.len = HeadersLen]
           at == Put(w1.at, EmptyWriter.len, hh)
           w2 == [w1 EXCEPT !.at = at]
           w3 == AddDataZeroed(w2, SizeOfNfgenmsg)
<1>2. opened = [w3 EXCEPT !.headers = w3.len - HeadersLen]
  BY Zenon DEF WriteHeader
<1>3. hh.family = "Unspec" /\ hh.body = b /\ hh.seq = 0 /\ hh.len = HeadersLen
  OBVIOUS
<1> HIDE DEF h, hh
<1>4. EmptyWriter.len = 0 /\ EmptyWriter.headers = NoHeader /\ DOMAIN EmptyWriter.at = {}
  BY DEF EmptyWriter
<1>5. w1.headers = NoHeader /\ w1.at = EmptyWriter.at /\ w1 = [len |-> w1.len, at |-> w1.at, headers |-> w1.headers]
      /\ w1.len = Pad(SizeOfNlmsghdr)
  BY <1>4, SMTT(30) DEF AddDataZeroed, Pad, SizeOfNlmsghdr, NLMSG_ALIGNTO
<1>6. DOMAIN at = {0} /\ at[0] = hh
  BY <1>4, <1>5 DEF Put
<1> HIDE DEF w1, at
<1>7. w2.headers = NoHeader /\ w2.at = at /\ w2.len = w1.len
  BY <1>5
<1> HIDE DEF w2
<1>8. /\ w3.at = at /\ w3 = [len |-> w3.len, at |-> w3.at, headers |-> w3.headers]
      /\ w3.len = w1.len + Pad(SizeOfNfgenmsg)
  BY <1>7 DEF AddDataZeroed
<1> HIDE DEF w3
<1>9. w3.len - HeadersLen = 0
  BY <1>5, <1>8 DEF HeadersLen, Pad, SizeOfNlmsghdr, SizeOfNfgenmsg, NLMSG_ALIGNTO
<1>10. opened.at = at /\ opened.headers = 0 /\ opened = [len |-> opened.len, at |-> opened.at, headers |-> opened.headers]
  BY <1>2, <1>8, <1>9, ZenonT(30)
<1> HIDE DEF opened
<1>11. w.at[0].family = "Unspec" /\ w.at[0].body = b /\ Header(w.at[0]) /\ w = [len |-> w.len, at |-> w.at, headers |-> w.headers]
  <2>1. CASE q.op # "rules"
    BY <1>3, <1>6, <1>10, <2>1, SMTT(30) DEF Header
  <2>2. CASE q.op = "rules"
    <3> DEFINE v == AddDataZeroed(opened, FilterSize)
               n == hh.len + Pad(FilterSize)
    <3>1. w = v
      BY <2>2
    <3>2. 0 # NoHeader
      BY DEF NoHeader
    <3>3. v.at = [at EXCEPT ![0].len = @ + Pad(FilterSize)] /\ v = [len |-> v.len, at |-> v.at, headers |-> v.headers]
      BY <1>10, <3>2 DEF AddDataZeroed
    <3> HIDE DEF v
    <3>4. v.at[0] = [at[0] EXCEPT !.len = at[0].len + Pad(FilterSize)]
      BY <1>6, <3>3
    <3>5. v.at[0] = [hh EXCEPT !.len = n]
      BY <1>6, <3>4
    <3>6. n = HeadersLen + Pad(FilterSize)
      BY <1>3
    <3> HIDE DEF n
    <3>7. v.at[0].family = "Unspec" /\ v.at[0].body = b /\ v.at[0].seq = 0 /\ v.at[0].len = n
      BY <1>3, <3>5 DEF hh, h
    <3> QED
      BY <3>1, <3>3, <3>6, <3>7, Zenon DEF Header
  <2> QED
    BY <2>1, <2>2, ZenonT(30)
<1> HIDE DEF w
<1>12. FinalizeWritingObject(w).at = w.at
  BY <1>11, ZenonT(30) DEF FinalizeWritingObject
<1> QED
  BY <1>1, <1>11, <1>12 DEF b

(* With nothing unread, no object and no NLMSG_DONE is in the buffer.      *)
LEMMA NothingUnread ==
  ASSUME RP!IInv, NEW r \in Nat, NEW e \in BOOLEAN, Buffer(r, e)
  PROVE  bufStart = endPos <=> r = 0 /\ e = FALSE
<1>1. bufStart \in Nat /\ Off(r) \in Nat /\ DoneLen = 20 /\ Off(0) = 0
  BY LoopFacts, OffFacts DEF DoneLen, SizeOfNlmsghdr
<1>2. r # 0 => Off(r) >= 20
  <2>1. r # 0 => Off(0) + ObjLen <= Off(r)
    BY OffFacts
  <2> QED
    BY <2>1, <1>1, DumpAssumption DEF SizeOfNlmsghdr, SizeOfNfgenmsg
<1>3. CASE e = TRUE
  BY <1>1, <1>3 DEF Buffer, SizeOf
<1>4. CASE e = FALSE
  <2>1. endPos = bufStart + Off(r)
    BY <1>1, <1>4 DEF Buffer, SizeOf
  <2> QED
    BY <1>1, <1>2, <1>4, <2>1
<1> QED
  BY <1>3, <1>4, Zenon

LEMMA PositionFrame ==
  ASSUME UNCHANGED <<inbox, mem, bufStart, endPos, acc, request, sent, dumpGen, dumping, gen, past>>
  PROVE  (Position => Position') /\ (Refused => Refused')
<1>1. ASSUME NEW r, NEW n, NEW e, NEW f
      PROVE  Buffer(r, e)' = Buffer(r, e) /\ Queue(n, f)' = Queue(n, f)
  BY Zenon DEF Buffer, Queue, Holds
<1>2. ASSUME NEW r, NEW n PROVE Fresh(r, n)' = Fresh(r, n)
  BY Zenon DEF Fresh, Follows, Carries
<1>3. Interrupted' = Interrupted /\ Refused' = Refused
  BY Zenon DEF Interrupted, Refused
<1> QED
  BY <1>1, <1>2, <1>3, ZenonT(30) DEF Position

LEMMA WholeDumpFrame ==
  ASSUME LInv, UNCHANGED <<acc, result, request, gen, past>>
  PROVE  WholeDump'
BY DEF LInv, WholeDump

LEMMA StartStep ==
  ASSUME LInv, Start \/ SendFails
  PROVE  LInv'
<1>1. /\ listPc \in {"start", "opened"} /\ UNCHANGED <<recvVars, query, list, dumpVars, storeVars>>
      /\ \/ listPc' = "opened" /\ fd' = "open" /\ UNCHANGED answer
         \/ /\ listPc' = "returned" /\ UNCHANGED fd
            /\ answer' \in {"MissingChainInformation", "NetlinkOpenError", "NetlinkSendError"}
            /\ answer' # "NetlinkSendError" => listPc = "start"
  BY DEF Start, SendFails, Return
<1>2. /\ UNCHANGED <<inbox, sockErr, maxSeq, cb, acc, pc, result, request, sent, dumpGen,
                     dumping, objs, gen, past, query>>
  BY <1>1 DEF recvVars, dumpVars, storeVars
<1>3. RP!IInv'
  BY <1>1, LoopFrame DEF LInv
<1>4. TypeOK'
  BY <1>1, <1>2 DEF LInv, TypeOK, Answers
<1>5. Phases' /\ SocketReleased'
  BY <1>1, <1>2 DEF LInv, Phases, TypeOK, SocketReleased, Header
<1>6. WholeDump'
  BY <1>2, WholeDumpFrame
<1>7. pc' = "idle"
  BY <1>1, <1>2 DEF LInv, Phases
<1> QED
  BY <1>3, <1>4, <1>5, <1>6, <1>7, SMTT(30) DEF LInv

LEMMA SendRequestStep ==
  ASSUME LInv, SendRequest
  PROVE  LInv'
<1>1. /\ listPc = "opened" /\ listPc' = "receiving" /\ dumping' = TRUE
      /\ R!Begin(R!NoSeq, "decode")
      /\ UNCHANGED <<query, fd, answer, list, sent, dumpGen, storeVars>>
  BY DEF SendRequest
<1>2. /\ pc' = "recv" /\ maxSeq' = R!NoSeq /\ cb' = "decode" /\ bufStart' = 0 /\ endPos' = 0
      /\ acc' = <<>> /\ UNCHANGED <<inbox, sockErr, result, objs, gen, past>>
  BY <1>1 DEF R!Begin, storeVars
<1>3. pc = "idle" /\ inbox = <<>> /\ sent = 0 /\ dumpGen = 0 /\ result = "none"
  BY <1>1 DEF LInv, Phases
<1>4. RP!IInv'
  BY <1>1, LoopBegins DEF LInv
<1>5. TypeOK' /\ Phases' /\ SocketReleased' /\ WholeDump'
  <2>1. Header(request')
    BY RequestIs DEF SendRequest
  <2>2. Header(request)'
    BY <2>1 DEF Header
  <2> QED
    BY <1>1, <1>2, <1>3, <2>2 DEF LInv, TypeOK, Phases, SocketReleased, WholeDump
<1>6. Position'
  <2>1. Buffer(0, FALSE)'
    BY <1>2, OffFacts DEF Buffer, SizeOf, Holds
  <2>2. Queue(0, FALSE)' /\ Fresh(0, 0)'
    BY <1>1, <1>2, <1>3 DEF Queue, Fresh
  <2> QED
    BY <2>1, <2>2, Zenon DEF Position
<1> QED
  BY <1>4, <1>5, <1>6 DEF LInv

LEMMA CloseStep ==
  ASSUME LInv, Close
  PROVE  LInv'
<1>1. /\ listPc = "receiving" /\ pc = "returned" /\ fd' = "closed" /\ listPc' = "returned"
      /\ answer' \in {result, "CloseFailed"}
      /\ UNCHANGED <<recvVars, query, dumpVars, storeVars>>
  BY DEF Close, Return
<1>2. UNCHANGED <<inbox, sockErr, maxSeq, cb, acc, pc, result, request, sent, dumpGen,
                  dumping, objs, gen, past, query>>
  BY <1>1 DEF recvVars, dumpVars, storeVars
<1>3. RP!IInv'
  BY <1>1, LoopFrame DEF LInv
<1>4. TypeOK' /\ Phases' /\ SocketReleased'
  BY <1>1, <1>2 DEF LInv, TypeOK, Phases, SocketReleased, Answers, Outcomes, Header
<1>5. WholeDump'
  BY <1>2, WholeDumpFrame
<1> QED
  BY <1>1, <1>2, <1>3, <1>4, <1>5 DEF LInv

-----------------------------------------------------------------------------
(* The kernel's steps.                                                     *)

LEMMA ChangeStep ==
  ASSUME LInv, Change
  PROVE  LInv'
<1>1. /\ gen < MaxGen /\ gen' = gen + 1 /\ UNCHANGED <<recvVars, listVars, dumpVars>>
      /\ past' = [g \in 1 .. gen' |-> IF g = gen' THEN objs' ELSE past[g]]
      /\ \/ \E b \in Bodies : objs' = Append(objs, b)
         \/ \E i \in DOMAIN objs :
              objs' = SubSeq(objs, 1, i - 1) \o SubSeq(objs, i + 1, Len(objs))
  BY Zenon DEF Change
<1>2. UNCHANGED <<inbox, sockErr, mem, bufStart, endPos, maxSeq, cb, acc, pc, result, errno,
                  request, sent, dumpGen, dumping, query, listPc, fd, answer, list>>
  BY <1>1 DEF recvVars, dumpVars, listVars
<1>3. gen \in Nat /\ gen >= 1 /\ gen \in 1 .. MaxGen /\ MaxGen \in Nat /\ dumpGen \in 0 .. gen
  BY RulesetAssumption DEF LInv, TypeOK
<1>4. objs' \in Seq(Bodies)
  <2>1. objs \in Seq(Bodies)
    BY DEF LInv, TypeOK
  <2>2. ASSUME NEW i \in DOMAIN objs 
        PROVE  SubSeq(objs, 1, i - 1) \o SubSeq(objs, i + 1, Len(objs)) \in Seq(Bodies)
    BY <2>1, <2>2
  <2>3. ASSUME NEW b \in Bodies PROVE Append(objs, b) \in Seq(Bodies)
    BY <2>1
  <2> QED
    BY <1>1, <2>2, <2>3, Zenon
<1>5. past'[gen'] = objs' /\ \A g \in 1 .. gen : past'[g] = past[g]
  BY <1>1, <1>3
<1>6. RP!IInv'
  BY <1>1, LoopFrame DEF LInv
<1>7. TypeOK'
  BY <1>1, <1>2, <1>3, <1>4 DEF LInv, TypeOK
<1>8. Phases' /\ SocketReleased'
  BY <1>2, <1>5, SMTT(30) DEF LInv, Phases, SocketReleased, Header
<1>9. WholeDump'
  <2> SUFFICES ASSUME result = "Ok" PROVE WholeDump'
    BY <1>2 DEF WholeDump
  <2>1. PICK g \in 1 .. gen :
               /\ \A i \in 1 .. Len(acc) : i \in DOMAIN Dump(past[g], request)
                                        /\ acc[i] = Dump(past[g], request)[i]
               /\ Len(acc) + 1 \notin DOMAIN Dump(past[g], request)
    BY DEF LInv, WholeDump
  <2>2. g \in 1 .. gen' /\ Dump(past'[g], request') = Dump(past[g], request)
    BY <1>1, <1>2, <1>3, <1>5
  <2> QED
    BY <1>2, <2>1, <2>2 DEF WholeDump
<1>10. Position => Position'
  <2> SUFFICES ASSUME NEW r \in Nat, NEW n \in Nat, NEW e \in BOOLEAN, NEW f \in BOOLEAN,
                      Buffer(r, e) /\ Queue(n, f), e \/ f => ~dumping, e => inbox = <<>>,
                      Fresh(r, n) \/ Interrupted
               PROVE  Position'
    BY DEF Position
  <2>1. Buffer(r, e)' /\ Queue(n, f)'
    BY <1>2 DEF Buffer, Queue, Holds
  <2>2. Interrupted => Interrupted'
    BY <1>2 DEF Interrupted
  <2>4. Fresh(r, n) => Fresh(r, n)'
    <3>1. CASE dumpGen \in 1 .. gen /\ Follows(Dump(past[dumpGen], request), r, n)
      <4>1. PICK s : s = Dump(past[dumpGen], request)
        OBVIOUS
      <4>2. dumpGen' \in 1 .. gen' /\ Dump(past'[dumpGen'], request') = s
        <5>1. \A g \in 1 .. gen : g \in 1 .. gen + 1
          BY <1>3
        <5>2. gen' = gen + 1
          BY <1>1, Zenon
        <5> QED
          BY <1>2, <1>5, <3>1, <4>1, <5>1, <5>2, ZenonT(30)
      <4>3. Follows(s, r, n)'
        BY <4>1, <3>1, <1>2, ZenonT(30) DEF Follows, Carries
      <4> QED
        BY <4>2, <4>3 DEF Fresh, Follows, Carries
    <3> QED
      BY <3>1, <1>2, ZenonT(30) DEF Fresh
  <2> QED
    BY <1>2, <2>1, <2>2, <2>4 DEF Position
<1>11. Refused => Refused'
  BY <1>2 DEF Refused
<1> QED
  BY <1>2, <1>6, <1>7, <1>8, <1>9, <1>10, <1>11 DEF LInv

LEMMA MessageFacts ==
  ASSUME NEW b, NEW intr \in BOOLEAN
  PROVE  /\ IsObject(DumpMessage("NFT", b, intr)) /\ IsDone(DumpMessage("DONE", b, intr))
         /\ DumpMessage("NFT", b, intr).body = Decoded(b)
         /\ \A t \in {"NFT", "DONE"} :
              DumpMessage(t, b, intr) \in Messages
              /\ (intr => "DUMP_INTR" \in DumpMessage(t, b, intr).flags)
              /\ DumpMessage(t, b, intr).type = t
<1>1. ObjLen \in Nat /\ DoneLen \in Nat
  BY DumpAssumption DEF DoneLen, SizeOfNlmsghdr
<1>2. CASE intr = TRUE
  BY <1>1, <1>2 DEF DumpMessage, IsObject, IsDone, Decoded, Messages, MsgTypes, NFNETLINK_V0
<1>3. CASE intr = FALSE
  BY <1>1, <1>3, SMTT(30) DEF DumpMessage, IsObject, IsDone, Decoded, Messages, MsgTypes, NFNETLINK_V0
<1> QED
  BY <1>2, <1>3, Zenon

(* A datagram of the dump is well formed, and its content is as requested. *)
LEMMA DatagramFacts ==
  ASSUME NEW all, NEW n \in 0 .. ChunkLen, NEW done \in BOOLEAN, NEW intr \in BOOLEAN,
         n > 0 \/ done, sent \in Nat,
         NEW d, d = DumpDatagram(all, n, done, intr)
  PROVE  /\ d \in AllDatagrams
         /\ d.size = SizeOf(n, done) /\ Holds(d.at, 0, n, done) /\ Carries(d.at, 0, n, all, sent)
         /\ intr => "DUMP_INTR" \in d.at[0].flags
<1>1. /\ n \in Nat /\ ChunkLen \in Nat /\ n <= ChunkLen
      /\ ObjLen \in Nat /\ ObjLen >= 20 /\ ObjLen % 4 = 0 /\ DoneLen = 20
  BY DumpAssumption, SMTT(30) DEF DoneLen, SizeOfNlmsghdr, SizeOfNfgenmsg
<1> DEFINE objects == {Off(i) : i \in 0 .. n - 1}
           offsets == objects \cup (IF done THEN {Off(n)} ELSE {})
           Msg(o) == IF o = Off(n) THEN DumpMessage("DONE", NoBody, intr /\ o = 0)
                     ELSE DumpMessage("NFT", all[sent + 1 + o \div ObjLen], intr /\ o = 0)
<1>2. d = [size |-> SizeOf(n, done), at |-> [o \in offsets |-> Msg(o)]]
  BY DEF DumpDatagram, Off, SizeOf
<1>3. DOMAIN d.at = offsets /\ \A o \in offsets : d.at[o] = Msg(o)
  BY <1>2
<1>4. /\ Off(n) \in Nat /\ Off(0) = 0
      /\ d.size = SizeOf(n, done) /\ d.size = Off(n) + (IF done THEN 20 ELSE 0)
  BY <1>1, <1>2, OffFacts DEF SizeOf
<1>5. \A k \in 0 .. n - 1 : Off(k) \in objects /\ Off(k) # Off(n) /\ Off(k) \in Nat
                            /\ Off(k) \div ObjLen = k /\ Off(k + 1) = Off(k) + ObjLen
                            /\ Off(k) + ObjLen <= Off(n)
  BY <1>1, OffFacts
<1>6. \A k \in 0 .. n - 1 : d.at[0 + Off(k)] = DumpMessage("NFT", all[sent + 1 + k], intr /\ Off(k) = 0)
  <2>1. \A k \in 0 .. n - 1 : 0 + Off(k) = Off(k) /\ Off(k) \in offsets
    BY <1>5
  <2>2. \A k \in 0 .. n - 1 : Msg(Off(k)) = DumpMessage("NFT", all[sent + 1 + k], intr /\ Off(k) = 0)
    BY <1>5, Zenon
  <2> HIDE DEF offsets, Msg
  <2> QED
    BY <1>3, <2>1, <2>2, ZenonT(30)
<1>7. done => Off(n) \in offsets /\ d.at[0 + Off(n)] = DumpMessage("DONE", NoBody, intr /\ Off(n) = 0)
  <2>1. 0 + Off(n) = Off(n)
    BY <1>4
  <2>2. done => Off(n) \in offsets
    BY Zenon
  <2> QED
    BY <1>3, <2>1, <2>2, Zenon
<1>8. Holds(d.at, 0, n, done)
  <2>1. \A k \in 0 .. n - 1 : 0 + Off(k) \in DOMAIN d.at /\ IsObject(d.at[0 + Off(k)])
    <3>1. \A k \in 0 .. n - 1 : 0 + Off(k) \in DOMAIN d.at
      BY <1>3, <1>5
    <3>2. \A k \in 0 .. n - 1 : IsObject(d.at[0 + Off(k)])
      BY <1>6, MessageFacts, Zenon
    <3> QED
      BY <3>1, <3>2
  <2>2. done => 0 + Off(n) \in DOMAIN d.at /\ IsDone(d.at[0 + Off(n)])
    <3>1. done => 0 + Off(n) \in DOMAIN d.at
      BY <1>3, <1>4, <1>7
    <3>2. done => IsDone(d.at[0 + Off(n)])
      BY <1>7, MessageFacts, Zenon
    <3> QED
      BY <3>1, <3>2, ZenonT(30)
  <2> QED
    BY <2>1, <2>2 DEF Holds
<1>9. Carries(d.at, 0, n, all, sent)
  BY <1>6, MessageFacts, ZenonT(30) DEF Carries
<1>10. 0 \in offsets /\ (intr => "DUMP_INTR" \in d.at[0].flags)
  <2>1. 0 \in offsets
    <3>1. CASE n > 0
      <4>1. 0 \in 0 .. n - 1
        BY <3>1, <1>1
      <4> QED
        BY <4>1, <1>4, <1>5
    <3>2. CASE n = 0
      BY <3>2, <1>4, <1>7
    <3> QED
      BY <3>1, <3>2, <1>1
  <2>2. \E t \in {"NFT", "DONE"} : \E b : d.at[0] = DumpMessage(t, b, intr /\ 0 = 0)
    BY <1>3, <2>1
  <2>3. intr => \E t \in {"NFT", "DONE"} : \E b : d.at[0] = DumpMessage(t, b, intr)
    BY <2>2, Zenon
  <2> QED
    BY <2>1, <2>3, MessageFacts, Zenon
<1> HIDE DEF objects, offsets, Msg
<1>11. ASSUME NEW o \in offsets
       PROVE  (\E k \in 0 .. n - 1 : o = Off(k)) \/ (done /\ o = Off(n))
  BY DEF offsets, objects
<1>12. \A o \in offsets : o \in Nat /\ o < d.size /\ d.at[o] \in Messages
                          /\ d.at[o].len = (IF o = Off(n) THEN 20 ELSE ObjLen)
                          /\ d.at[o].len >= MinLen(d.at[o].type)
  <2> SUFFICES ASSUME NEW o \in offsets
               PROVE  o \in Nat /\ o < d.size /\ d.at[o] \in Messages
                      /\ d.at[o].len = (IF o = Off(n) THEN 20 ELSE ObjLen)
                      /\ d.at[o].len >= MinLen(d.at[o].type)
    OBVIOUS
  <2>1. o \in Nat /\ o < d.size
    <3>1. CASE \E k \in 0 .. n - 1 : o = Off(k)
      BY <3>1, <1>1, <1>4, <1>5
    <3>2. CASE done /\ o = Off(n)
      <4>1. d.size = Off(n) + 20
        BY <3>2, <1>4, ZenonT(30)
      <4>2. o = Off(n) /\ Off(n) \in Nat
        BY <3>2, <1>4
      <4> QED
        BY <4>1, <4>2
    <3> QED
      BY <3>1, <3>2, <1>11
  <2>2. d.at[o] = Msg(o)
    BY <1>3
  <2>3. d.at[o] \in Messages
    BY <1>1, <2>2, SMTT(30) DEF Msg, DumpMessage, Messages, MsgTypes, NFNETLINK_V0
  <2>4. d.at[o].len = (IF o = Off(n) THEN 20 ELSE ObjLen) /\ d.at[o].len >= MinLen(d.at[o].type)
    BY <1>1, <2>2, SMTT(30) DEF Msg, DumpMessage, MinLen, SizeOfNlmsghdr, SizeOfNfgenmsg
  <2> QED
    BY <2>1, <2>3, <2>4, SMTT(30)
<1>13. Tiles(d.at, 0, d.size)
  <2>2. Pad(ObjLen) = ObjLen /\ Pad(20) = 20
    BY <1>1 DEF Pad, NLMSG_ALIGNTO
  <2>3. ASSUME NEW k \in 0 .. n - 1
        PROVE  Off(k) + ObjLen = d.size \/ (Off(k) + ObjLen < d.size /\ Off(k) + ObjLen \in offsets)
    <3>1. CASE k + 1 < n
      <4>1. k + 1 \in 0 .. n - 1
        BY <3>1, <1>1
      <4>2. Off(k + 1) \in offsets /\ Off(k + 1) = Off(k) + ObjLen /\ Off(k + 1) + ObjLen <= Off(n)
        BY <4>1, <1>5 DEF offsets
      <4> QED
        BY <4>1, <4>2, <1>1, <1>4, <1>5
    <3>2. CASE k + 1 = n
      BY <3>2, <1>1, <1>4, <1>5, <1>7, SMT, SMTT(30)
    <3> QED
      BY <3>1, <3>2, <1>1
  <2>4. ASSUME NEW o \in offsets
        PROVE  o + Pad(d.at[o].len) = d.size
               \/ (o + Pad(d.at[o].len) < d.size /\ o + Pad(d.at[o].len) \in offsets)
    <3>1. CASE \E k \in 0 .. n - 1 : o = Off(k)
      BY <3>1, <1>5, <1>12, <2>2, <2>3
    <3>2. CASE done /\ o = Off(n)
      BY <3>2, <1>4, <1>12, <2>2, ZenonT(30)
    <3> QED
      BY <3>1, <3>2, <1>11, SMTT(30)
  <2> QED
    BY <1>3, <1>10, <2>4 DEF Tiles
<1>14. d.size <= MaxSize
  <2>1. Off(n) <= Off(ChunkLen)
    BY <1>1, OffFacts, SMTT(30)
  <2>2. Off(ChunkLen) + 20 <= MaxSize /\ MaxSize \in Nat /\ Off(ChunkLen) \in Nat
    BY <1>1, OffFacts, DumpAssumption, SMTT(30) DEF Off
  <2> QED
    BY <1>4, <2>1, <2>2
<1>15. WellFormed(d)
  BY <1>3, <1>4, <1>12, <1>13, SMTT(30) DEF WellFormed
<1>16. d \in [size : Nat, at : UNION {[S -> Messages] : S \in SUBSET Nat}]
  <2>1. d.at \in [offsets -> Messages] /\ offsets \in SUBSET Nat
    <3>1. d.at = [o \in offsets |-> Msg(o)]
      BY <1>2
    <3> QED
      BY <3>1, <1>12
  <2>2. d = [size |-> d.size, at |-> d.at]
    BY <1>2
  <2> QED
    BY <2>1, <2>2, <1>4
<1> QED
  BY <1>4, <1>8, <1>9, <1>10, <1>14, <1>15, <1>16, SMTT(30) DEF AllDatagrams

LEMMA FillStep ==
  ASSUME LInv, Fill
  PROVE  LInv'
<1> DEFINE all == Dump(objs, request)
           intr == dumpGen # 0 /\ gen # dumpGen
<1>1. /\ dumping /\ inbox = <<>> /\ dumpGen' = gen
      /\ UNCHANGED <<sockErr, mem, bufStart, endPos, maxSeq, cb, acc, pc, result, errno>>
      /\ UNCHANGED <<listVars, request, storeVars>>
  BY DEF Fill
<1>2. PICK n \in 0 .. ChunkLen : \E done \in BOOLEAN :
             /\ sent + 1 .. sent + n \subseteq DOMAIN all
             /\ done => sent + n + 1 \notin DOMAIN all
             /\ n > 0 \/ done
             /\ inbox' = <<DumpDatagram(all, n, done, intr)>>
             /\ sent' = sent + n
             /\ dumping' = ~done
  BY DEF Fill
<1>3. PICK done \in BOOLEAN :
             /\ sent + 1 .. sent + n \subseteq DOMAIN all
             /\ done => sent + n + 1 \notin DOMAIN all
             /\ n > 0 \/ done
             /\ inbox' = <<DumpDatagram(all, n, done, intr)>>
             /\ sent' = sent + n
             /\ dumping' = ~done
  BY <1>2
<1>4. PICK d : d = DumpDatagram(all, n, done, intr)
  OBVIOUS
<1>5. n \in Nat /\ sent \in Nat /\ gen \in Nat /\ gen >= 1 /\ dumpGen \in 0 .. gen /\ gen \in 1 .. MaxGen
  BY DumpAssumption, RulesetAssumption, SMTT(30) DEF LInv, TypeOK
<1>6. /\ d \in AllDatagrams /\ d.size = SizeOf(n, done)
      /\ Holds(d.at, 0, n, done) /\ Carries(d.at, 0, n, all, sent)
      /\ intr => "DUMP_INTR" \in d.at[0].flags
  <2>1. intr \in BOOLEAN
    OBVIOUS
  <2> HIDE DEF all, intr
  <2> QED
    BY <1>3, <1>4, <1>5, <2>1, DatagramFacts, SMTT(30)
<1>7. inbox' = <<d>> /\ Len(inbox') = 1 /\ inbox'[1] = d /\ inbox' # <<>>
  BY <1>3, <1>4, SMTT(30)
<1>8. UNCHANGED <<query, listPc, fd, answer, list, objs, gen, past>>
  BY <1>1, SMTT(30) DEF listVars, storeVars
<1>9. RP!IInv'
  BY <1>1, <1>6, <1>7, LoopFills, SMTT(30) DEF LInv
<1>10. TypeOK'
  <2>1. sent' \in Nat /\ dumping' \in BOOLEAN /\ dumpGen' \in 0 .. gen
    BY <1>1, <1>3, <1>5, SMTT(30)
  <2> QED
    BY <1>1, <1>8, <2>1 DEF LInv, TypeOK
<1>11. pc # "idle" /\ ~Refused /\ Phases' /\ SocketReleased'
  BY <1>1, <1>8 DEF LInv, Phases, SocketReleased, Header, Refused
<1>12. WholeDump'
  BY <1>1, <1>8, WholeDumpFrame
<1>13. ASSUME Position PROVE Position'
  <2>1. PICK r \in Nat, z \in Nat, e \in BOOLEAN, f \in BOOLEAN :
               /\ Buffer(r, e) /\ Queue(z, f)
               /\ e \/ f => ~dumping
               /\ e => inbox = <<>>
               /\ Fresh(r, z) \/ Interrupted
    BY <1>13 DEF Position
  <2>2. e = FALSE /\ z = 0
    BY <1>1, <2>1 DEF Queue
  <2>3. Buffer(r, FALSE)'
    BY <1>1, <2>1, <2>2, ZenonT(30) DEF Buffer, Holds
  <2>4. Queue(n, done)'
    BY <1>3, <1>6, <1>7, ZenonT(20) DEF Queue, Holds
  <2>5. done => ~dumping'
    BY <1>3, Zenon
  <2>6. CASE Interrupted
    <3>1. gen # 0
      BY <1>5
    <3>2. Interrupted'
      BY <1>1, <2>6, <3>1, ZenonT(30) DEF Interrupted
    <3> QED
      BY <1>5, <2>3, <2>4, <2>5, <3>2, ZenonT(30) DEF Position
  <2>7. CASE Fresh(r, z) /\ intr
    <3>1. Interrupted'
      BY <1>1, <1>5, <1>6, <1>7, <2>7 DEF Interrupted
    <3> QED
      BY <1>5, <2>3, <2>4, <2>5, <3>1, ZenonT(30) DEF Position
  <2>8. CASE Fresh(r, z) /\ ~intr
    <3>1. Len(acc) \in Nat
      BY LoopFacts, ZenonT(30) DEF LInv
    <3>2. /\ sent = Len(acc) + r
          /\ \A i \in 1 .. sent : i \in DOMAIN all
          /\ \A i \in 1 .. Len(acc) : acc[i] = all[i]
          /\ Carries(mem, bufStart, r, all, Len(acc))
      <4>1. CASE dumpGen = 0
        BY <4>1, <2>8, SMT, SMTT(30) DEF Fresh, Carries
      <4>2. CASE dumpGen # 0
        <5>1. all = Dump(past[dumpGen], request)
          BY <4>2, <2>8 DEF LInv, Phases
        <5>2. Follows(all, r, 0)
          BY <4>2, <5>1, <2>2, <2>8 DEF Fresh
        <5> HIDE DEF all
        <5> QED
          BY <5>2, <3>1 DEF Follows
      <4> QED
        BY <4>1, <4>2
    <3>3. PICK s : s = all
      OBVIOUS
    <3>4. Follows(s, r, n)'
      <4>1. (sent = Len(acc) + r + n)'
        BY <1>1, <1>3, <3>1, <3>2, ZenonT(30)
      <4>2. \A i \in 1 .. sent' : i \in DOMAIN s
        <5> HIDE DEF all
        <5> QED BY <1>3, <1>5, <3>2, <3>3, SMT, SMTT(30)
      <4>3. ~dumping' => sent' + 1 \notin DOMAIN s
        <5> HIDE DEF all
        <5> QED BY <1>3, <1>5, <3>3, ZenonT(30)
      <4>4. (\A i \in 1 .. Len(acc) : acc[i] = s[i])' /\ Carries(mem, bufStart, r, s, Len(acc))'
        <5> HIDE DEF all
        <5> QED BY <1>1, <3>2, <3>3, SMTT(30) DEF Carries
      <4>5. Carries(inbox[1].at, 0, n, s, Len(acc) + r)'
        <5> HIDE DEF all
        <5> QED BY <1>1, <1>6, <1>7, <3>2, <3>3, ZenonT(30) DEF Carries
      <4> QED
        BY <4>1, <4>2, <4>3, <4>4, <4>5, ZenonT(30) DEF Follows
    <3>5. s = Dump(past'[dumpGen'], request') /\ dumpGen' \in 1 .. gen'
      BY <1>1, <1>5, <1>8, <3>3, SMTT(30), ZenonT(30) DEF LInv, Phases
    <3>6. Fresh(r, n)'
      BY <3>4, <3>5, SMTT(30) DEF Fresh, Follows, Carries
    <3> QED
      BY <1>5, <2>3, <2>4, <2>5, <3>6, ZenonT(30) DEF Position
  <2> QED
    BY <2>1, <2>6, <2>7, <2>8, SMTT(30)
<1> QED
  BY <1>1, <1>9, <1>10, <1>11, <1>12, <1>13, SMTT(30) DEF LInv

LEMMA RefusalFacts ==
  ASSUME NEW h, Header(h), NEW e \in Errnos, NEW d, d = Reply(h, e)
  PROVE  d \in AllDatagrams /\ 0 \in DOMAIN d.at /\ IsRefusal(d.at[0])
<1> DEFINE m == d.at[0]
           n == Pad(FilterSize)
<1>1. n \in Nat /\ n % 4 = 0 /\ 40 + n <= MaxSize /\ MaxSize \in Nat
  BY DumpAssumption DEF HeadersLen, Pad, SizeOfNlmsghdr, SizeOfNfgenmsg, SizeOfNlmsgerr, NLMSG_ALIGNTO
<1>2. e \in Nat /\ e # 0 /\ -e \in Int \ {0}
  BY RulesetAssumption
<1> HIDE DEF n
<1>3. h.len \in {20, 20 + n} /\ h.seq = 0
  BY DEF Header, HeadersLen, Pad, SizeOfNlmsghdr, SizeOfNfgenmsg, NLMSG_ALIGNTO, n
<1>4. PICK len : len = 16 + 20 + (h.len - 16)
  OBVIOUS
<1>5. len \in Nat /\ len >= 36 /\ len <= MaxSize /\ len % 4 = 0
  BY <1>1, <1>3, <1>4
<1>6. Pad(len) = len
  BY <1>5 DEF Pad, NLMSG_ALIGNTO
<1>7. d = [size |-> len,
           at |-> [o \in {0} |-> [type |-> "ERROR", len |-> len, seq |-> 0, flags |-> {},
                    error |-> -e, version |-> NFNETLINK_V0, body |-> Undecodable]]]
  BY <1>2, <1>3, <1>4, <1>6, ZenonT(20) DEF Reply, SizeOfNlmsghdr, SizeOfNlmsgerr
<1>8. /\ d.size = len /\ DOMAIN d.at = {0} /\ d = [size |-> d.size, at |-> d.at]
      /\ m = [type |-> "ERROR", len |-> len, seq |-> 0, flags |-> {},
              error |-> -e, version |-> NFNETLINK_V0, body |-> Undecodable]
      /\ d.at = [o \in {0} |-> m]
  BY <1>7
<1> HIDE DEF m
<1>9. m \in Messages /\ m.len = len /\ m.len >= MinLen(m.type) /\ IsRefusal(m)
  BY <1>2, <1>5, <1>8 DEF Messages, MsgTypes, MinLen, IsRefusal, NFNETLINK_V0, SizeOfNlmsghdr,
     SizeOfNlmsgerr
<1>10. Tiles(d.at, 0, d.size)
  BY <1>5, <1>6, <1>8, <1>9 DEF Tiles
<1>11. WellFormed(d)
  BY <1>5, <1>8, <1>9, <1>10 DEF WellFormed
<1>12. d \in [size : Nat, at : UNION {[S -> Messages] : S \in SUBSET Nat}]
  <2>1. d.at \in [{0} -> Messages] /\ {0} \in SUBSET Nat
    BY <1>8, <1>9
  <2> QED
    BY <2>1, <1>5, <1>8, ZenonT(20)
<1> QED
  BY <1>5, <1>8, <1>9, <1>11, <1>12 DEF AllDatagrams, m

LEMMA RefuseStep ==
  ASSUME LInv, Refuse
  PROVE  LInv'
<1>1. /\ dumping /\ dumpGen = 0 /\ dumping' = FALSE
      /\ UNCHANGED <<sockErr, mem, bufStart, endPos, maxSeq, cb, acc, pc, result, errno>>
      /\ UNCHANGED <<request, sent, dumpGen, query, listPc, fd, answer, list, objs, gen, past>>
  BY DEF Refuse, listVars, storeVars
<1>2. pc # "idle" /\ Header(request) /\ ~Refused
  BY <1>1 DEF LInv, Phases, Refused
<1>3. PICK e \in Errnos : inbox' = <<Reply(request, e)>>
  BY DEF Refuse
<1>4. PICK d : d = Reply(request, e)
  OBVIOUS
<1>5. d \in AllDatagrams /\ 0 \in DOMAIN d.at /\ IsRefusal(d.at[0])
  BY <1>2, <1>4, RefusalFacts
<1>6. Len(inbox') = 1 /\ inbox'[1] = d
  BY <1>3, <1>4
<1>7. ASSUME Position PROVE bufStart = endPos /\ inbox = <<>>
  <2>1. PICK r \in Nat, n \in Nat, f \in BOOLEAN, g \in BOOLEAN :
               /\ Buffer(r, f) /\ Queue(n, g)
               /\ f \/ g => ~dumping
               /\ Fresh(r, n) \/ Interrupted
    BY <1>7 DEF Position
  <2>2. f = FALSE /\ g = FALSE
    BY <1>1, <2>1, ZenonT(20)
  <2>3. r = 0 /\ n = 0
    BY <1>1, <2>1 DEF Fresh, Interrupted
  <2>4. bufStart = endPos
    BY <2>1, <2>2, <2>3, NothingUnread, ZenonT(20) DEF LInv
  <2>5. inbox = <<>>
    BY <2>1, <2>2, <2>3 DEF Queue
  <2> QED
    BY <2>4, <2>5
<1>8. inbox = <<>>
  BY ZenonT(20) DEF Refuse
<1>9. RP!IInv'
  BY <1>1, <1>3, <1>4, <1>5, <1>8, LoopFills, ZenonT(20) DEF LInv
<1>10. TypeOK' /\ Phases' /\ SocketReleased'
  BY <1>1, <1>2, ZenonT(20) DEF LInv, TypeOK, Phases, SocketReleased, Header
<1>11. WholeDump'
  BY <1>1, WholeDumpFrame, ZenonT(20)
<1>12. Position => Refused'
  BY <1>1, <1>5, <1>6, <1>7, ZenonT(20) DEF Refused, IsRefusal
<1> QED
  BY <1>1, <1>2, <1>9, <1>10, <1>11, <1>12 DEF LInv

LEMMA SocketErrorStep ==
  ASSUME LInv, SocketError
  PROVE  LInv'
<1>1. /\ UNCHANGED <<inbox, mem, bufStart, endPos, maxSeq, cb, acc, pc, result, errno>>
      /\ UNCHANGED <<query, listPc, fd, answer, list, request, sent, dumpGen, dumping>>
      /\ UNCHANGED <<objs, gen, past>>
  BY DEF SocketError, R!Overrun, R!args, listVars, dumpVars, storeVars
<1>2. RP!Overrun
  BY DEF SocketError, R!Overrun, RP!Overrun, R!args, RP!args
<1>3. RP!IInv'
  BY <1>2, Premises, RP!EnvironmentStep DEF LInv
<1>4. TypeOK' /\ Phases' /\ SocketReleased'
  BY <1>1, ZenonT(30) DEF LInv, TypeOK, Phases, SocketReleased, Header
<1>5. WholeDump'
  BY <1>1, WholeDumpFrame
<1>6. (Position => Position') /\ (Refused => Refused')
  BY <1>1, PositionFrame, ZenonT(20)
<1> QED
  BY <1>1, <1>3, <1>4, <1>5, <1>6, ZenonT(30) DEF LInv

-----------------------------------------------------------------------------
(* The receive loop.                                                       *)

LEMMA ParseDump ==
  ASSUME NEW a, NEW m
  PROVE  /\ IsObject(m) => R!ParseNlmsg(a, m) \in
              {"BufTooSmall", "NlMsgTooSmall", "ConcurrentGenerationUpdate", "NfGenMsg"}
         /\ IsDone(m) => R!ParseNlmsg(a, m) \in
              {"BufTooSmall", "NlMsgTooSmall", "ConcurrentGenerationUpdate", "Done"}
         /\ "DUMP_INTR" \in m.flags => R!ParseNlmsg(a, m) \notin {"NfGenMsg", "Done"}
<1>1. ObjLen \in Nat /\ ObjLen >= 20
  BY DumpAssumption DEF SizeOfNlmsghdr, SizeOfNfgenmsg
<1>2. R!GetNlmsghdr(a, m) \in {"BufTooSmall", "NlMsgTooSmall", "ConcurrentGenerationUpdate", "Header"}
      /\ ("DUMP_INTR" \in m.flags => R!GetNlmsghdr(a, m) # "Header")
  BY DEF R!GetNlmsghdr
<1>3. IsObject(m) => R!ParseNfGenMsg(m) = "NfGenMsg"
  BY <1>1 DEF IsObject, R!ParseNfGenMsg, R!SizeOfNlmsghdr, R!SizeOfNfgenmsg, R!NFNETLINK_V0,
     NFNETLINK_V0
<1>4. IsDone(m) => R!ParseControl(m) = "Done"
  BY DEF IsDone, R!ParseControl
<1> QED
  BY <1>2, <1>3, <1>4, ZenonT(20) DEF R!ParseNlmsg, IsObject, IsDone

LEMMA ParseRefusal ==
  ASSUME NEW a, NEW m, IsRefusal(m)
  PROVE  R!ParseNlmsg(a, m) \in {"BufTooSmall", "NlMsgTooSmall", "Error"}
<1>1. R!GetNlmsghdr(a, m) \in {"BufTooSmall", "NlMsgTooSmall", "Header"}
  BY DEF R!GetNlmsghdr, IsRefusal
<1>2. m.type = "ERROR" /\ R!ParseControl(m) \in {"NlMsgTooSmall", "Error"}
  BY DEF R!ParseControl, IsRefusal
<1> QED
  BY <1>1, <1>2, ZenonT(30) DEF R!ParseNlmsg

(* What is left to show of a turn of the loop.                             *)
LEMMA LoopStep ==
  ASSUME LInv, Receive, RP!IInv', UNCHANGED <<maxSeq, cb>>, pc \in {"recv", "parse"}, pc' # "idle",
         pc' # "returned" => result' = "none" /\ (Position' \/ Refused'),
         pc' = "returned" => result' \in Outcomes,
         WholeDump'
  PROVE  LInv'
<1>1. UNCHANGED <<query, listPc, fd, answer, list, objs, gen, past, request, sent, dumpGen, dumping>>
      /\ listPc = "receiving"
  BY DEF Receive, listVars, dumpVars, storeVars
<1>2. acc' \in Seq(Bodies)
  BY ZenonT(20) DEF RP!IInv, RP!TypeOK
<1>3. TypeOK'
  BY <1>1, <1>2, ZenonT(20) DEF LInv, TypeOK
<1>4. Phases' /\ SocketReleased'
  BY <1>1, ZenonT(20) DEF LInv, Phases, SocketReleased, Header
<1> QED
  BY <1>3, <1>4, ZenonT(20) DEF LInv

LEMMA RelocateDump ==
  ASSUME LInv, Receive, R!Relocate, Position
  PROVE  LInv'
<1>1. /\ pc = "parse" /\ bufStart = endPos /\ pc' = "recv" /\ bufStart' = endPos'
      /\ endPos' \in {0, endPos}
      /\ UNCHANGED <<inbox, sockErr, acc, result, maxSeq, cb>>
  BY LoopFacts DEF LInv, R!Relocate, R!args
<1>2. UNCHANGED <<gen, past, request, sent, dumpGen, dumping>> /\ result = "none"
  BY <1>1 DEF Receive, dumpVars, storeVars, LInv, Phases
<1>3. PICK r \in Nat, n \in Nat, e \in BOOLEAN, f \in BOOLEAN :
             /\ Buffer(r, e) /\ Queue(n, f)
             /\ e \/ f => ~dumping
             /\ e => inbox = <<>>
             /\ Fresh(r, n) \/ Interrupted
  BY DEF Position
<1>4. r = 0 /\ e = FALSE
  BY <1>1, <1>3, NothingUnread, ZenonT(30) DEF LInv
<1>5. Buffer(0, FALSE)'
  <2>1. endPos' \in Nat /\ Off(0) = 0
    BY <1>1, LoopFacts, OffFacts, ZenonT(30) DEF LInv
  <2> QED
    BY <1>1, <2>1 DEF Buffer, SizeOf, Holds
<1>6. Queue(n, f)'
  BY <1>1, <1>3, ZenonT(30) DEF Queue, Holds
<1>7. Fresh(0, n) => Fresh(0, n)'
  <2>1. \A at, o, s, x : Carries(at, o, 0, s, x)
    BY DEF Carries
  <2>2. ASSUME NEW s, Follows(s, 0, n) PROVE Follows(s, 0, n)'
    <3>1. /\ sent' = Len(acc') + 0 + n
          /\ \A i \in 1 .. sent' : i \in DOMAIN s
          /\ ~dumping' => sent' + 1 \notin DOMAIN s
          /\ \A i \in 1 .. Len(acc') : acc'[i] = s[i]
      BY <1>1, <1>2, <2>2, ZenonT(30) DEF Follows
    <3>2. Carries(mem', bufStart', 0, s, Len(acc'))
      BY <2>1, ZenonT(30)
    <3>3. inbox' # <<>> => Carries(inbox'[1].at, 0, n, s, Len(acc') + 0)
      BY <1>1, <2>2, ZenonT(30) DEF Follows
    <3> QED
      BY <3>1, <3>2, <3>3, ZenonT(30) DEF Follows
  <2> QED
    BY <1>1, <1>2, <2>2, ZenonT(30) DEF Fresh
<1>8. Interrupted => Interrupted'
  BY <1>1, <1>2 DEF Interrupted
<1>9. Position'
  BY <1>2, <1>3, <1>4, <1>5, <1>6, <1>7, <1>8, ZenonT(30) DEF Position
<1>10. WholeDump'
  BY <1>1, <1>2, ZenonT(20) DEF WholeDump
<1> QED
  BY <1>1, <1>2, <1>9, <1>10, LoopRelocates, LoopStep, SMTT(30) DEF LInv

(* recv() moves the datagram at the head of the queue into the buffer.     *)
LEMMA RecvMoves ==
  ASSUME LInv, R!Recv, Len(inbox) = 1, NEW d, d = inbox[1], 0 \in DOMAIN d.at
  PROVE  /\ pc = "recv" /\ bufStart = endPos /\ inbox' = <<>>
         /\ UNCHANGED <<sockErr, bufStart, acc, maxSeq, cb, result>>
         /\ endPos \in Nat /\ d.size \in Nat /\ d.size > 0 /\ endPos' = endPos + d.size
         /\ pc' = "parse" /\ RP!IInv' /\ d \in AllDatagrams
         /\ \A x \in DOMAIN d.at : endPos + x \in DOMAIN mem' /\ mem'[endPos + x] = d.at[x]
<1>1. /\ pc = "recv" /\ inbox # <<>> /\ inbox' = Tail(inbox) /\ bufStart = endPos
      /\ UNCHANGED <<sockErr, bufStart, acc, maxSeq, cb>>
  BY LoopFacts, ZenonT(20) DEF LInv, R!Recv, R!args
<1>2. inbox \in Seq(AllDatagrams) /\ endPos \in Nat
  BY LoopFacts DEF LInv
<1>3. Head(inbox) = d /\ d \in AllDatagrams /\ inbox' = <<>>
  BY <1>1, <1>2
<1>4. RP!IInv' /\ endPos' = endPos + d.size
  BY <1>3, LoopReceives DEF LInv
<1>5. d.size \in Nat /\ \A x \in DOMAIN d.at : x \in Nat /\ x < d.size
  <2>1. d.size \in Nat /\ \A x \in DOMAIN d.at : x \in 0 .. d.size - 1
    BY <1>3 DEF AllDatagrams, WellFormed
  <2> QED
    BY <2>1
<1>6. d.size > 0
  BY <1>5
<1>7. PICK nb : /\ nb = R!Least(d.size, R!BufSize - endPos)
                /\ endPos' = endPos + nb /\ mem' = R!Store(endPos, nb, d.at)
                /\ pc' = (IF nb <= 0 THEN "returned" ELSE "parse")
                /\ result' = (IF nb <= 0 THEN "Ok" ELSE result)
  BY <1>3, ZenonT(20) DEF R!Recv
<1>8. nb \in Int
  BY <1>2, <1>5, <1>7, Premises, SMTT(30) DEF R!Least, R!BufSize
<1>9. nb = d.size
  BY <1>2, <1>4, <1>5, <1>7, <1>8, SMTT(30)
<1>10. pc' = "parse" /\ result' = result
  <2>1. ~(nb <= 0)
    BY <1>6, <1>8, <1>9
  <2> QED
    BY <1>7, <2>1, ZenonT(30)
<1>11. ASSUME NEW x \in DOMAIN d.at
       PROVE  endPos + x \in DOMAIN mem' /\ mem'[endPos + x] = d.at[x]
  <2>1. /\ x \in {y \in DOMAIN d.at : y < nb} /\ endPos <= endPos + x /\ endPos + x < endPos + nb
        /\ (endPos + x) - endPos = x
    BY <1>2, <1>5, <1>9
  <2> QED
    BY <1>7, <2>1 DEF R!Store
<1> QED
  BY <1>1, <1>2, <1>3, <1>4, <1>5, <1>6, <1>10, <1>11, SMTT(30)

LEMMA RecvDump ==
  ASSUME LInv, Receive, R!Recv, Position
  PROVE  LInv'
<1> DEFINE d == inbox[1]
<1>1. pc = "recv" /\ inbox # <<>> /\ bufStart = endPos
  BY LoopFacts DEF LInv, R!Recv
<1>2. UNCHANGED <<gen, past, request, sent, dumpGen, dumping>> /\ result = "none"
  BY <1>1 DEF Receive, dumpVars, storeVars, LInv, Phases
<1>3. PICK r \in Nat, n \in Nat, e \in BOOLEAN, f \in BOOLEAN :
             /\ Buffer(r, e) /\ Queue(n, f)
             /\ e \/ f => ~dumping
             /\ e => inbox = <<>>
             /\ Fresh(r, n) \/ Interrupted
  BY DEF Position
<1>4. r = 0 /\ e = FALSE
  BY <1>1, <1>3, NothingUnread, Zenon DEF LInv
<1>5. Len(inbox) = 1 /\ (n > 0 \/ f) /\ d.size = SizeOf(n, f) /\ Holds(d.at, 0, n, f)
  BY <1>1, <1>3 DEF Queue
<1> HIDE DEF d
<1>6. Off(n) \in Nat /\ Off(0) = 0
  BY OffFacts
<1>7. \A k \in 0 .. n - 1 : 0 + Off(k) = Off(k) /\ Off(k) \in DOMAIN d.at
                             /\ Off(k) \in Nat /\ IsObject(d.at[Off(k)])
  <2> SUFFICES ASSUME NEW k \in 0 .. n - 1
               PROVE  0 + Off(k) = Off(k) /\ Off(k) \in DOMAIN d.at
                      /\ Off(k) \in Nat /\ IsObject(d.at[Off(k)])
    OBVIOUS
  <2>1. Off(k) \in Nat
    BY OffFacts
  <2>2. 0 + Off(k) = Off(k)
    BY <2>1
  <2>3. 0 + Off(k) \in DOMAIN d.at /\ IsObject(d.at[0 + Off(k)])
    BY <1>5, Zenon DEF Holds
  <2> QED
    BY <2>1, <2>2, <2>3
<1>8. f => Off(n) \in DOMAIN d.at /\ IsDone(d.at[Off(n)])
  <2>1. 0 + Off(n) = Off(n)
    BY <1>6
  <2> QED
    BY <2>1, <1>5, Zenon DEF Holds
<1>9. 0 \in DOMAIN d.at
  <2>1. CASE n > 0
    <3>1. 0 \in 0 .. n - 1
      BY <2>1
    <3> QED
      BY <3>1, <1>6, <1>7
  <2>2. CASE n = 0
    <3>1. f
      BY <2>2, <1>5
    <3> QED
      BY <2>2, <3>1, <1>6, <1>8
  <2> QED
    BY <2>1, <2>2
<1>10. /\ inbox' = <<>> /\ UNCHANGED <<bufStart, acc, maxSeq, cb, result>>
       /\ endPos \in Nat /\ d.size \in Nat /\ d.size > 0 /\ endPos' = endPos + d.size
       /\ pc' = "parse" /\ RP!IInv'
       /\ \A x \in DOMAIN d.at : endPos + x \in DOMAIN mem' /\ mem'[endPos + x] = d.at[x]
  BY <1>5, <1>9, RecvMoves, ZenonT(30) DEF d
<1>11. Buffer(n, f)'
  <2>1. endPos' = bufStart' + SizeOf(n, f)
    BY <1>1, <1>10, <1>5
  <2>2. Holds(mem', bufStart', n, f)
    <3>1. \A k \in 0 .. n - 1 : endPos + Off(k) \in DOMAIN mem' /\ IsObject(mem'[endPos + Off(k)])
      BY <1>10, <1>7
    <3>2. f => endPos + Off(n) \in DOMAIN mem' /\ IsDone(mem'[endPos + Off(n)])
      BY <1>10, <1>8
    <3>3. bufStart' = endPos
      BY <1>1, <1>10
    <3> QED
      BY <3>1, <3>2, <3>3, ZenonT(30) DEF Holds
  <2> QED
    BY <2>1, <2>2 DEF Buffer, Holds
<1>12. Queue(0, FALSE)'
  BY <1>10 DEF Queue
<1>13. Interrupted => Interrupted'
  <2>1. bufStart' # endPos' /\ mem'[bufStart'] = d.at[0]
    <3>1. bufStart' = endPos /\ endPos + 0 = endPos /\ endPos' # endPos
      <4>1. endPos + 0 = endPos /\ endPos + d.size # endPos
        BY <1>6, <1>10
      <4> QED
        BY <1>1, <1>10, <4>1, ZenonT(30)
    <3> QED
      BY <3>1, <1>9, <1>10
  <2> QED
    BY <1>1, <1>10, <1>2, <2>1 DEF Interrupted, d
<1>14. Fresh(0, n) => Fresh(n, 0)'
  <2> SUFFICES ASSUME Fresh(0, n) PROVE Fresh(n, 0)'
    OBVIOUS
  <2>1. ~(dumpGen = 0 /\ n = 0 /\ dumping)
    BY <1>3, <1>5
  <2>2. PICK s : s = Dump(past[dumpGen], request)
    OBVIOUS
  <2>3. dumpGen \in 1 .. gen /\ Follows(s, 0, n)
    BY <2>1, <2>2 DEF Fresh
  <2>4. Len(acc) \in Nat
    BY LoopFacts DEF LInv
  <2>5. Carries(mem', bufStart', n, s, Len(acc))
    <3>1. Carries(d.at, 0, n, s, Len(acc) + 0) /\ Len(acc) + 0 = Len(acc)
      BY <1>1, <1>10, <2>3, <2>4 DEF Follows, d
    <3>2. \A k \in 0 .. n - 1 : d.at[Off(k)].body = Decoded(s[Len(acc) + 1 + k])
      BY <1>7, <3>1, ZenonT(30) DEF Carries
    <3>3. \A k \in 0 .. n - 1 : mem'[endPos + Off(k)].body = Decoded(s[Len(acc) + 1 + k])
      BY <1>10, <1>7, <3>2, ZenonT(30)
    <3>4. bufStart' = endPos
      BY <1>1, <1>10, ZenonT(30)
    <3> QED
      BY <3>3, <3>4, ZenonT(30) DEF Carries
  <2>6. Follows(s, n, 0)'
    <3>1. sent = Len(acc) + 0 + n
      BY <2>3 DEF Follows
    <3>2. sent = Len(acc) + n + 0
      BY <2>4, <3>1
    <3> QED
      BY <1>1, <1>10, <1>2, <2>3, <2>5, <3>2, ZenonT(30) DEF Follows
  <2>7. s = Dump(past'[dumpGen'], request') /\ dumpGen' \in 1 .. gen'
    BY <1>2, <2>2, <2>3
  <2> QED
    BY <2>6, <2>7, ZenonT(20) DEF Fresh, Follows, Carries
<1>15. Position'
  BY <1>2, <1>3, <1>4, <1>10, <1>11, <1>12, <1>13, <1>14, ZenonT(30) DEF Position
<1>16. WholeDump'
  BY <1>2, <1>10, ZenonT(30) DEF WholeDump
<1> QED
  BY <1>1, <1>10, <1>2, <1>15, <1>16, LoopStep, ZenonT(30)

(* A turn of the loop on a message of the dump.                            *)
LEMMA HandleFacts ==
  ASSUME LInv, R!Handle, NEW m, m = mem[bufStart], IsObject(m) \/ IsDone(m),
         bufStart \in DOMAIN mem, bufStart < endPos,
         NEW p, p = R!ParseNlmsg(endPos - bufStart, m)
  PROVE  \/ /\ pc' = "returned" /\ result' = "ConcurrentGenerationUpdate"
         \/ /\ p = "NfGenMsg" /\ m.body = Undecodable
            /\ pc' = "returned" /\ result' = "UndecodableObject"
         \/ /\ p = "NfGenMsg" /\ m.body # Undecodable
            /\ pc' = "parse" /\ result' = result
            /\ bufStart' = bufStart + R!Advance(m) /\ acc' = Append(acc, m.body)
         \/ /\ p = "Done" /\ pc' = "returned" /\ result' = "Ok"
            /\ bufStart' = bufStart /\ acc' = acc
<1>1. PICK v : /\ v = R!Verdict(p, m)
               /\ acc' = IF p = "NfGenMsg" /\ cb = "decode" /\ m.body # Undecodable
                         THEN Append(acc, m.body) ELSE acc
               /\ bufStart' = IF v = "Continue" THEN bufStart + R!Advance(m) ELSE bufStart
               /\ pc' = IF v = "Continue" THEN pc ELSE "returned"
               /\ result' = IF v = "Continue" THEN result ELSE v
  BY ZenonT(30) DEF R!Handle
<1>2. pc = "parse" /\ maxSeq = R!NoSeq /\ cb = "decode"
  BY ZenonT(30) DEF R!Handle, LInv, Phases
<1>3. result' \notin {"Panic", "BufTooSmall", "NlMsgTooSmall"}
  BY LoopHandles, ZenonT(30) DEF LInv, RP!IInv, RP!TypeOK, RP!Cursors, RP!NeverMisreads
<1>4. p \in {"BufTooSmall", "NlMsgTooSmall", "ConcurrentGenerationUpdate", "NfGenMsg", "Done"}
      /\ (p = "NfGenMsg" => "MULTI" \in m.flags)
  BY ParseDump DEF IsObject
<1>5. CASE p \in {"BufTooSmall", "NlMsgTooSmall", "ConcurrentGenerationUpdate"}
  <2>1. v = p
    BY <1>1, <1>5 DEF R!Verdict, R!DecodeErrors
  <2> QED
    BY <1>1, <1>3, <1>5, <2>1, ZenonT(30)
<1>6. CASE p = "Done"
  <2>1. v = "Ok"
    BY <1>1, <1>6, ZenonT(30) DEF R!Verdict, R!DecodeErrors
  <2> QED
    BY <1>1, <1>6, <2>1, ZenonT(30)
<1>7. CASE p = "NfGenMsg"
  <2>1. v = IF m.body = Undecodable THEN "UndecodableObject" ELSE "Continue"
    BY <1>1, <1>2, <1>4, <1>7, ZenonT(30) DEF R!Verdict, R!DecodeErrors
  <2> QED
    BY <1>1, <1>2, <1>7, <2>1, ZenonT(30)
<1> QED
  BY <1>4, <1>5, <1>6, <1>7, ZenonT(30)

LEMMA HandleDump ==
  ASSUME LInv, Receive, R!Handle, Position
  PROVE  LInv'
<1>1. /\ pc = "parse" /\ bufStart # endPos
      /\ UNCHANGED <<inbox, sockErr, mem, endPos, maxSeq, cb>>
  BY DEF R!Handle, R!args
<1>2. RP!IInv'
  BY LoopHandles DEF LInv
<1>3. UNCHANGED <<gen, past, request, sent, dumpGen, dumping>> /\ result = "none"
  BY <1>1 DEF Receive, dumpVars, storeVars, LInv, Phases
<1>4. PICK r \in Nat, n \in Nat, e \in BOOLEAN, f \in BOOLEAN :
             /\ Buffer(r, e) /\ Queue(n, f)
             /\ e \/ f => ~dumping
             /\ e => inbox = <<>>
             /\ Fresh(r, n) \/ Interrupted
  BY DEF Position
<1>5. r > 0 \/ (r = 0 /\ e = TRUE)
  <2>1. ~(r = 0 /\ e = FALSE)
    BY <1>1, <1>4, NothingUnread, Zenon DEF LInv
  <2>2. CASE e = TRUE
    BY <2>2
  <2>3. CASE e = FALSE
    BY <2>1, <2>3
  <2> QED
    BY <2>2, <2>3, Zenon
<1>6. bufStart \in Nat /\ endPos \in Nat /\ bufStart < endPos /\ acc \in Seq(Bodies)
  BY <1>1, LoopFacts DEF LInv
<1>7. Off(0) = 0 /\ bufStart + 0 = bufStart
  BY <1>6, OffFacts
<1>8. PICK m : m = mem[bufStart]
  OBVIOUS
<1>9. PICK p : p = R!ParseNlmsg(endPos - bufStart, m)
  OBVIOUS
<1>10. /\ bufStart \in DOMAIN mem
       /\ r > 0 => IsObject(m)
       /\ r = 0 => IsDone(m)
  <2>1. CASE r > 0
    <3>1. 0 \in 0 .. r - 1
      BY <2>1
    <3>2. bufStart + Off(0) \in DOMAIN mem /\ IsObject(mem[bufStart + Off(0)])
      BY <3>1, <1>4, Zenon DEF Buffer, Holds
    <3> QED
      BY <2>1, <3>2, <1>7, <1>8
  <2>2. CASE r = 0 /\ e = TRUE
    <3>1. bufStart + Off(0) \in DOMAIN mem /\ IsDone(mem[bufStart + Off(0)])
      BY <2>2, <1>4, ZenonT(30) DEF Buffer, Holds
    <3> QED
      BY <2>2, <3>1, <1>7, <1>8
  <2> QED
    BY <1>5, <2>1, <2>2, Zenon
<1>11. /\ p = "NfGenMsg" => r > 0
       /\ p = "Done" => r = 0
       /\ p \in {"NfGenMsg", "Done"} => "DUMP_INTR" \notin m.flags
  BY <1>5, <1>9, <1>10, ParseDump
<1>12. CASE pc' = "returned" /\ result' \in {"ConcurrentGenerationUpdate", "UndecodableObject"}
  <2>1. WholeDump'
    BY <1>12 DEF WholeDump
  <2> QED
    BY <1>1, <1>2, <1>12, <2>1, LoopStep, SMTT(30) DEF Outcomes
<1>13. CASE /\ p = "Done" /\ pc' = "returned" /\ result' = "Ok"
            /\ bufStart' = bufStart /\ acc' = acc
  <2>1. r = 0 /\ e = TRUE /\ inbox = <<>> /\ n = 0 /\ ~dumping
    BY <1>4, <1>5, <1>11, <1>13, SMTT(30) DEF Queue
  <2>2. ~Interrupted
    BY <1>8, <1>11, <1>13, <2>1 DEF Interrupted
  <2>3. PICK s : s = Dump(past[dumpGen], request)
    OBVIOUS
  <2>4. dumpGen \in 1 .. gen /\ Follows(s, 0, 0)
    BY <1>4, <2>1, <2>2, <2>3, SMTT(30) DEF Fresh
  <2>5. Len(acc) \in Nat /\ sent = Len(acc)
    BY <1>6, <2>4, SMTT(30) DEF Follows
  <2>6. /\ \A i \in 1 .. Len(acc) : i \in DOMAIN s /\ acc[i] = s[i]
        /\ Len(acc) + 1 \notin DOMAIN s
    BY <2>1, <2>4, <2>5 DEF Follows
  <2>7. s = Dump(past'[dumpGen], request') /\ dumpGen \in 1 .. gen' /\ acc' = acc
    BY <1>3, <1>13, <2>3, <2>4, ZenonT(30)
  <2>8. WholeDump'
    BY <2>6, <2>7 DEF WholeDump
  <2> QED
    BY <1>1, <1>2, <1>13, <2>8, LoopStep, ZenonT(30) DEF Outcomes
<1>14. CASE /\ p = "NfGenMsg" /\ m.body # Undecodable
            /\ pc' = "parse" /\ result' = result
            /\ bufStart' = bufStart + R!Advance(m) /\ acc' = Append(acc, m.body)
  <2>1. PICK q \in Nat : r = q + 1
    <3>1. r - 1 \in Nat /\ r = (r - 1) + 1
      BY <1>11, <1>14
    <3> QED
      BY <3>1
  <2>2. bufStart' = bufStart + ObjLen
    <3>1. m.len = ObjLen
      BY <1>10, <1>11, <1>14 DEF IsObject
    <3>2. R!Pad(ObjLen) = ObjLen
      BY DumpAssumption DEF R!Pad, R!NLMSG_ALIGNTO
    <3> QED
      BY <1>14, <3>1, <3>2 DEF R!Advance
  <2>3. ObjLen \in Nat /\ Off(q + 1) = Off(q) + ObjLen /\ Off(q) \in Nat
        /\ \A k \in Nat : Off(k) \in Nat /\ Off(k + 1) = Off(k) + ObjLen
    BY OffFacts, DumpAssumption, ZenonT(30)
  <2>4. \A k \in Nat : bufStart' + Off(k) = bufStart + Off(k + 1)
    <3> SUFFICES ASSUME NEW k \in Nat PROVE bufStart' + Off(k) = bufStart + Off(k + 1)
      OBVIOUS
    <3>1. Off(k) \in Nat /\ Off(k + 1) = Off(k) + ObjLen /\ ObjLen \in Nat
      BY <2>3
    <3> HIDE DEF Off
    <3> QED
      BY <1>6, <2>2, <3>1
  <2>5. \A k \in 0 .. q - 1 : k + 1 \in 0 .. r - 1 /\ k \in Nat
    BY <2>1
  <2>6. Buffer(q, e)'
    <3>1. endPos' = bufStart' + SizeOf(q, e)
      <4>1. PICK t \in Nat : t = IF e THEN DoneLen ELSE 0
        BY DEF DoneLen, SizeOfNlmsghdr
      <4>2. SizeOf(q, e) = Off(q) + t
        BY <4>1 DEF SizeOf
      <4>3. endPos = bufStart + (Off(q + 1) + t)
        BY <4>1, <1>4, <2>1 DEF Buffer, SizeOf
      <4>4. ObjLen \in Nat /\ Off(q + 1) = Off(q) + ObjLen /\ Off(q) \in Nat
        BY <2>3
      <4> QED
        BY <4>2, <4>3, <4>4, <1>1, <1>6, <2>2, SMTT(30)
    <3>2. \A k \in 0 .. q - 1 : bufStart' + Off(k) \in DOMAIN mem /\ IsObject(mem[bufStart' + Off(k)])
      BY <1>4, <2>4, <2>5, Zenon DEF Buffer, Holds
    <3>3. e => bufStart' + Off(q) \in DOMAIN mem /\ IsDone(mem[bufStart' + Off(q)])
      BY <1>4, <2>1, <2>4, ZenonT(30) DEF Buffer, Holds
    <3> QED
      BY <1>1, <3>1, <3>2, <3>3 DEF Buffer, Holds
  <2>7. Queue(n, f)' /\ (e => inbox' = <<>>) /\ (e \/ f => ~dumping')
    BY <1>1, <1>3, <1>4, ZenonT(30) DEF Queue, Holds
  <2>8. Interrupted => Interrupted'
    BY <1>1, <1>3, <1>8, <1>11, <1>14, SMT, SMTT(30) DEF Interrupted
  <2>9. Fresh(r, n) => Fresh(q, n)'
    <3> SUFFICES ASSUME Fresh(r, n) PROVE Fresh(q, n)'
      OBVIOUS
    <3>1. PICK s : s = Dump(past[dumpGen], request)
      OBVIOUS
    <3>2. dumpGen \in 1 .. gen /\ Follows(s, r, n)
      BY <2>1, <3>1 DEF Fresh
    <3>3. s = Dump(past'[dumpGen'], request') /\ dumpGen' \in 1 .. gen'
      BY <1>3, <3>1, <3>2, SMTT(30)
    <3>4. m.body \in Bodies /\ m.body = s[Len(acc) + 1]
      <4>1. 0 \in 0 .. r - 1 /\ Len(acc) \in Nat /\ Len(acc) + 1 + 0 = Len(acc) + 1
        BY <2>1, <1>6
      <4>2. mem[bufStart + Off(0)].body = Decoded(s[Len(acc) + 1 + 0])
        BY <3>2, <4>1, Zenon DEF Follows, Carries
      <4>3. m.body = Decoded(s[Len(acc) + 1])
        BY <4>1, <4>2, <1>7, <1>8, ZenonT(30)
      <4> QED
        BY <4>3, <1>14 DEF Decoded
    <3>5. /\ acc' \in Seq(Bodies) /\ Len(acc) \in Nat /\ Len(acc') = Len(acc) + 1
          /\ \A i \in 1 .. Len(acc) : acc'[i] = acc[i]
          /\ acc'[Len(acc) + 1] = m.body
      BY <1>6, <1>14, <3>4, SMTT(30)
    <3>6. sent' = Len(acc') + q + n
      BY <1>3, <2>1, <3>2, <3>5, SMTT(30) DEF Follows
    <3>7. \A i \in 1 .. Len(acc') : acc'[i] = s[i]
      BY <3>2, <3>4, <3>5 DEF Follows
    <3>8. Carries(mem', bufStart', q, s, Len(acc'))
      <4>1. ASSUME NEW k \in 0 .. q - 1
            PROVE  mem'[bufStart' + Off(k)].body = Decoded(s[Len(acc') + 1 + k])
        <5>1. k + 1 \in 0 .. r - 1 /\ bufStart' + Off(k) = bufStart + Off(k + 1)
              /\ Len(acc) + 1 + (k + 1) = Len(acc') + 1 + k
          <6>1. k + 1 \in 0 .. r - 1 /\ k \in Nat
            BY <2>5
          <6>2. bufStart' + Off(k) = bufStart + Off(k + 1)
            BY <6>1, <2>4, SMTT(30)
          <6>3. Len(acc) + 1 + (k + 1) = Len(acc') + 1 + k
            BY <6>1, <3>5, SMTT(30)
          <6> QED
            BY <6>1, <6>2, <6>3
        <5>2. mem[bufStart + Off(k + 1)].body = Decoded(s[Len(acc) + 1 + (k + 1)])
          BY <5>1, <3>2, ZenonT(30) DEF Follows, Carries
        <5> QED
          BY <5>1, <5>2, <1>1, SMTT(30)
      <4> QED
        BY <4>1 DEF Carries
    <3>9. inbox' # <<>> => Carries(inbox'[1].at, 0, n, s, Len(acc') + q)
      <4>1. Len(acc') + q = Len(acc) + r
        BY <2>1, <3>5, SMT, SMTT(30)
      <4> QED
        BY <4>1, <1>1, <3>2 DEF Follows
    <3>10. Follows(s, q, n)'
      BY <1>3, <3>2, <3>6, <3>7, <3>8, <3>9, ZenonT(30) DEF Follows, Carries
    <3> QED
      BY <3>3, <3>10, ZenonT(30) DEF Fresh, Follows, Carries
  <2>10. Position'
    BY <1>4, <2>6, <2>7, <2>8, <2>9, ZenonT(30) DEF Position
  <2>11. WholeDump'
    BY <1>3, <1>14 DEF WholeDump
  <2> QED
    BY <1>1, <1>2, <1>3, <1>14, <2>10, <2>11, LoopStep, SMTT(30)
<1> QED
  <2>1. IsObject(m) \/ IsDone(m)
    BY <1>5, <1>10, ZenonT(30)
  <2> QED
    BY <1>6, <1>8, <1>9, <1>10, <1>12, <1>13, <1>14, <2>1, HandleFacts, ZenonT(30)

(* The loop while the refusal is unread: it is moved into the buffer and   *)
(* then returned as an error.                                              *)
LEMMA RefusalStep ==
  ASSUME LInv, Receive, R!Recv \/ R!Handle \/ R!Relocate, Refused
  PROVE  LInv'
<1>1. UNCHANGED <<gen, past, request, sent, dumpGen, dumping>> /\ ~dumping
  BY ZenonT(20) DEF Receive, dumpVars, storeVars, Refused
<1>2. pc \in {"recv", "parse"} /\ result = "none" /\ bufStart \in Nat /\ endPos \in Nat
      /\ inbox \in Seq(AllDatagrams) /\ bufStart <= endPos
  BY LoopFacts DEF LInv, Phases, R!Recv, R!Handle, R!Relocate
<1>3. CASE R!Recv
  <2>1. Len(inbox) = 1 /\ bufStart = endPos /\ 0 \in DOMAIN inbox[1].at /\ IsRefusal(inbox[1].at[0])
    BY <1>3, ZenonT(20) DEF Refused, R!Recv
  <2>2. PICK d : d = inbox[1]
    OBVIOUS
  <2>3. /\ inbox' = <<>> /\ UNCHANGED <<bufStart, acc, maxSeq, cb, result>>
        /\ endPos \in Nat /\ d.size \in Nat /\ d.size > 0 /\ endPos' = endPos + d.size
        /\ pc' = "parse" /\ RP!IInv'
        /\ \A x \in DOMAIN d.at : endPos + x \in DOMAIN mem' /\ mem'[endPos + x] = d.at[x]
    BY <1>3, <2>1, <2>2, RecvMoves, ZenonT(30)
  <2>4. bufStart' # endPos' /\ bufStart' = endPos + 0
    BY <2>1, <2>3
  <2>5. bufStart' \in DOMAIN mem' /\ mem'[bufStart'] = d.at[0]
    BY <2>1, <2>2, <2>3, <2>4, Zenon
  <2>6. Refused'
    BY <1>1, <2>1, <2>2, <2>3, <2>4, <2>5, ZenonT(20) DEF Refused, IsRefusal
  <2>7. WholeDump'
    BY <1>2, <2>3 DEF WholeDump
  <2> QED
    BY <1>2, <2>3, <2>6, <2>7, LoopStep, ZenonT(20)
<1>4. CASE R!Relocate
  <2>1. /\ pc = "parse" /\ bufStart = endPos /\ pc' = "recv" /\ bufStart' = endPos'
        /\ UNCHANGED <<inbox, acc, result, maxSeq, cb>>
    BY <1>2, <1>4 DEF R!Relocate, R!args
  <2>2. Refused'
    BY <1>1, <2>1, ZenonT(20) DEF Refused
  <2>3. WholeDump'
    BY <1>2, <2>1 DEF WholeDump
  <2>4. RP!IInv'
    BY <1>4, LoopRelocates DEF LInv
  <2> QED
    BY <1>2, <2>1, <2>2, <2>3, <2>4, LoopStep
<1>5. CASE R!Handle
  <2>1. pc = "parse" /\ bufStart # endPos /\ UNCHANGED <<maxSeq, cb>>
    BY <1>5 DEF R!Handle, R!args
  <2>2. PICK m : m = mem[bufStart]
    OBVIOUS
  <2>3. bufStart \in DOMAIN mem /\ IsRefusal(m) /\ bufStart < endPos
    BY <1>2, <2>1, <2>2 DEF Refused
  <2>4. PICK p : p = R!ParseNlmsg(endPos - bufStart, m)
    OBVIOUS
  <2>5. PICK v : /\ v = R!Verdict(p, m)
                 /\ pc' = IF v = "Continue" THEN pc ELSE "returned"
                 /\ result' = IF v = "Continue" THEN result ELSE v
    BY <1>5, <2>2, <2>3, <2>4, ZenonT(30) DEF R!Handle
  <2>6. p \in {"BufTooSmall", "NlMsgTooSmall", "Error"}
    BY <2>3, <2>4, ParseRefusal, Zenon
  <2>7. v \in {"BufTooSmall", "NlMsgTooSmall", "NetlinkError"}
    BY <2>3, <2>5, <2>6 DEF IsRefusal, R!Verdict, R!DecodeErrors
  <2>8. RP!IInv'
    BY <1>5, LoopHandles DEF LInv
  <2>9. result' \notin {"Panic", "BufTooSmall", "NlMsgTooSmall"}
    BY <2>8, ZenonT(30) DEF RP!IInv, RP!TypeOK, RP!Cursors, RP!NeverMisreads
  <2>10. pc' = "returned" /\ result' = "NetlinkError"
    BY <2>5, <2>7, <2>9
  <2>11. WholeDump'
    BY <2>10 DEF WholeDump
  <2> QED
    BY <2>1, <2>8, <2>10, <2>11, LoopStep, ZenonT(20) DEF Outcomes
<1> QED
  BY <1>3, <1>4, <1>5

LEMMA RecvFailsStep ==
  ASSUME LInv, Receive, R!RecvFails
  PROVE  LInv'
<1>1. /\ pc = "recv" /\ pc' = "returned" /\ result' = "NetlinkRecvError"
      /\ UNCHANGED <<maxSeq, cb>>
  BY DEF R!RecvFails, R!args
<1>2. RP!RecvFails
  BY DEF R!RecvFails, RP!RecvFails, R!args, RP!args
<1>3. RP!IInv'
  BY <1>2, Premises, RP!EnvironmentStep DEF LInv
<1>4. WholeDump'
  BY <1>1 DEF WholeDump
<1> QED
  BY <1>1, <1>3, <1>4, LoopStep DEF Outcomes

-----------------------------------------------------------------------------
(* The invariant holds.                                                    *)

LEMMA InitLInv ==
  ASSUME Init
  PROVE  LInv
<1>1. RP!IInv
  <2>1. RP!Init
    BY DEF Init, R!Idle, RP!Init, RP!Idle, R!EmptyMem, RP!EmptyMem, R!NoSeq, RP!NoSeq
  <2> QED
    BY <2>1, Premises, RP!InitIInv
<1>2. pc = "idle" /\ result = "none" /\ acc = <<>> /\ inbox = <<>> /\ sockErr = "none"
  BY DEF Init, R!Idle
<1>3. objs \in Seq(Bodies) /\ past = <<objs>> /\ gen = 1
  BY RulesetAssumption DEF Init
<1>4. past \in [1 .. gen -> Seq(Bodies)] /\ past[gen] = objs
  BY <1>3
<1>5. TypeOK
  <2>1. gen \in 1 .. MaxGen /\ sent \in Nat /\ dumpGen \in 0 .. gen
    BY <1>3, RulesetAssumption DEF Init
  <2>2. acc \in Seq(Bodies) /\ dumping \in BOOLEAN
    BY <1>1, <1>2, LoopFacts, Zenon DEF Init
  <2> QED
    BY <1>3, <1>4, <2>1, <2>2, ZenonT(30) DEF Init, TypeOK, Answers
<1>6. Phases
  BY <1>2, <1>3, <1>4 DEF Init, Phases
<1>7. WholeDump /\ SocketReleased
  BY <1>2 DEF Init, WholeDump, SocketReleased
<1> QED
  BY <1>1, <1>2, <1>5, <1>6, <1>7 DEF LInv

LEMMA NextLInv ==
  ASSUME LInv, [Next]_vars
  PROVE  LInv'
<1>1. CASE Start \/ SendFails
  BY <1>1, StartStep
<1>2. CASE SendRequest
  BY <1>2, SendRequestStep
<1>3. CASE Receive
  <2>1. R!Step
    BY <1>3, ZenonT(20) DEF Receive
  <2>2. ~R!RecvFails => Position \/ Refused
    BY <2>1, ZenonT(20) DEF LInv, R!Step, R!Recv, R!Handle, R!Relocate
  <2> QED
    BY <1>3, <2>1, <2>2, RecvFailsStep, RecvDump, HandleDump, RelocateDump, RefusalStep, ZenonT(30)
       DEF R!Step
<1>4. CASE Close
  BY <1>4, CloseStep
<1>5. CASE Fill
  BY <1>5, FillStep
<1>6. CASE Change
  BY <1>6, ChangeStep
<1>7. CASE Refuse
  BY <1>7, RefuseStep
<1>8. CASE SocketError
  BY <1>8, SocketErrorStep
<1>9. CASE UNCHANGED vars
  <2>1. UNCHANGED <<inbox, sockErr, mem, bufStart, endPos, maxSeq, cb, acc, pc, result, errno>>
        /\ UNCHANGED <<query, listPc, fd, answer, list>>
        /\ UNCHANGED <<request, sent, dumpGen, dumping>> /\ UNCHANGED <<objs, gen, past>>
    BY <1>9 DEF vars, recvVars, listVars, dumpVars, storeVars
  <2>2. RP!IInv'
    BY <1>9, LoopFrame, SMT, SMTT(30) DEF LInv, vars
  <2>3. TypeOK' /\ Phases' /\ WholeDump' /\ SocketReleased'
    BY <2>1, Zenon DEF LInv, TypeOK, Phases, WholeDump, SocketReleased, Header
  <2>4. (Position => Position') /\ (Refused => Refused')
    BY <2>1, PositionFrame
  <2> QED
    BY <2>1, <2>2, <2>3, <2>4, ZenonT(30) DEF LInv
<1> QED
  BY <1>1, <1>2, <1>3, <1>4, <1>5, <1>6, <1>7, <1>8, <1>9 DEF Next, Client

LEMMA ListingInvariant == Spec => []LInv
<1>1. Init => LInv
  BY InitLInv
<1>2. LInv /\ [Next]_vars => LInv'
  BY NextLInv
<1> QED
  BY <1>1, <1>2, PTL DEF Spec

(* Whatever the ruleset and however it changes, whether the kernel dumps   *)
(* it or refuses to, and whichever recv() fails: the framing of the answer *)
(* is never lost.  Of the errors of recv_and_process() (query.rs) a        *)
(* listing returns only a failed recv(), the kernel's refusal, a change of *)
(* the ruleset under the dump, or an object that cannot be decoded.        *)
THEOREM ListingTypeOK == Spec => []TypeOK
<1>1. LInv => TypeOK
  BY DEF LInv
<1> QED
  BY <1>1, ListingInvariant, PTL

(* What recv_and_process() (query.rs) has collected when it returns Ok is  *)
(* the kernel's answer to the request in one generation of the ruleset:    *)
(* NLM_F_DUMP_INTR, which get_nlmsghdr() (parser.rs) turns into an error,  *)
(* is enough to tell every change between two datagrams.                   *)
THEOREM ListingWholeDump == Spec => []WholeDump
<1>1. LInv => WholeDump
  BY DEF LInv
<1> QED
  BY <1>1, ListingInvariant, PTL

(* list_objects_with_data() (query.rs) returns with the socket still open  *)
(* only when send() has failed.                                            *)
THEOREM ListingSocketReleased == Spec => []SocketReleased
<1>1. LInv => SocketReleased
  BY DEF LInv
<1> QED
  BY <1>1, ListingInvariant, PTL

-----------------------------------------------------------------------------
(* What a listing returns.  Induction on the natural numbers, for sets.    *)

LEMMA LeastNatural ==
  ASSUME NEW T \in SUBSET Nat, T # {}
  PROVE  \E m \in T : \A k \in T : m <= k
<1> DEFINE L == {ss \in Nat \X Nat : ss[1] < ss[2]}
<1>1. IsWellFoundedOn(L, Nat)
  BY NatLessThanWellFounded, Zenon DEF OpToRel
<1>2. \A x, y \in Nat : y < x => <<y, x>> \in L
  OBVIOUS
<1> HIDE DEF L
<1>3. \E x \in T : \A y \in T : ~ (<<y, x>> \in L)
  BY <1>1, WFMin, Zenon
<1>4. PICK m \in T : \A y \in T : ~ (<<y, m>> \in L)
  BY <1>3
<1>5. \A k \in T : ~ (k < m)
  BY <1>2, <1>4, Zenon
<1>6. \A k \in T : m <= k
  BY <1>5
<1> QED
  BY <1>6

LEMMA NaturalInduction ==
  ASSUME NEW S, 0 \in S, \A n \in Nat : n \in S => n + 1 \in S
  PROVE  Nat \subseteq S
<1>1. SUFFICES ASSUME Nat \ S # {} PROVE FALSE
  OBVIOUS
<1>2. PICK m \in Nat \ S : \A k \in Nat \ S : m <= k
  BY <1>1, LeastNatural, Zenon
<1>3. m # 0 /\ m - 1 \in Nat /\ m - 1 \in S
  BY <1>2
<1> QED
  BY <1>2, <1>3

LEMMA EmptyIs ==
  ASSUME NEW S
  PROVE  << >> \in Seq(S) /\ Len(<< >>) = 0
OBVIOUS

(* f[i] has the first i elements of s that are in T, for i up to n.        *)
Grown(before, x, T) == IF x \in T THEN Append(before, x) ELSE before

IsKept(f, n, s, T) == f = [i \in 0 .. n |-> IF i = 0 THEN <<>> ELSE Grown(f[i - 1], s[i], T)]

LEMMA KeptExists ==
  ASSUME NEW s, NEW T
  PROVE  \A n \in Nat : \E f : IsKept(f, n, s, T)
<1> DEFINE S == {n \in Nat : \E f : IsKept(f, n, s, T)}
<1>1. 0 \in S
  <2> DEFINE f == [i \in 0 .. 0 |-> <<>>]
  <2>1. IsKept(f, 0, s, T)
    BY DEF IsKept
  <2> QED
    BY <2>1
<1>2. ASSUME NEW n \in Nat, n \in S PROVE n + 1 \in S
  <2>1. PICK f : IsKept(f, n, s, T)
    BY <1>2, SMTT(30)
  <2> DEFINE g == [i \in 0 .. n + 1 |-> IF i = n + 1 THEN Grown(f[n], s[n + 1], T) ELSE f[i]]
  <2>2. ASSUME NEW i \in 0 .. n + 1 PROVE g[i] = IF i = 0 THEN <<>> ELSE Grown(g[i - 1], s[i], T)
    <3>1. CASE i = n + 1
      <4>1. n \in 0 .. n + 1 /\ n # n + 1 /\ i # 0 /\ i - 1 = n
        BY <3>1
      <4>2. g[i] = Grown(f[n], s[n + 1], T) /\ g[n] = f[n]
        BY <3>1, <4>1, ZenonT(30)
      <4> QED
        BY <4>1, <4>2, <3>1, ZenonT(30)
    <3>2. CASE i # n + 1
      <4>1. i \in 0 .. n /\ g[i] = f[i]
        BY <3>2
      <4>2. f[i] = IF i = 0 THEN <<>> ELSE Grown(f[i - 1], s[i], T)
        BY <4>1, <2>1 DEF IsKept
      <4>3. i # 0 => g[i - 1] = f[i - 1]
        <5>1. i # 0 => i - 1 \in 0 .. n + 1 /\ i - 1 # n + 1
          BY <4>1
        <5> QED
          BY <5>1, ZenonT(30)
      <4> QED
        BY <4>1, <4>2, <4>3
    <3> QED
      BY <3>1, <3>2, ZenonT(30)
  <2>3. IsKept(g, n + 1, s, T)
    BY <2>2 DEF IsKept
  <2> HIDE DEF g
  <2> QED
    BY <2>3
<1> HIDE DEF S
<1>3. Nat \subseteq S
  BY <1>1, <1>2, NaturalInduction, ZenonT(30)
<1> QED
  BY <1>3 DEF S

LEMMA ThoseAre ==
  ASSUME NEW s, NEW T, Len(s) \in Nat
  PROVE  \E f : /\ Those(s, T) = f[Len(s)] /\ f[0] = <<>>
                /\ \A i \in 1 .. Len(s) : f[i] = Grown(f[i - 1], s[i], T)
<1>1. \E f : IsKept(f, Len(s), s, T)
  BY KeptExists
<1> DEFINE kept == CHOOSE f : f = [i \in 0 .. Len(s) |-> IF i = 0 THEN <<>> ELSE Grown(f[i - 1], s[i], T)]
<1>2. IsKept(kept, Len(s), s, T)
  BY <1>1, ZenonT(30) DEF IsKept
<1>3. Those(s, T) = kept[Len(s)]
  BY Zenon DEF Those, Grown
<1> HIDE DEF kept
<1>4. kept[0] = <<>> /\ \A i \in 1 .. Len(s) : kept[i] = Grown(kept[i - 1], s[i], T)
  <2>1. 0 \in 0 .. Len(s) /\ \A i \in 1 .. Len(s) : i \in 0 .. Len(s) /\ i # 0
    OBVIOUS
  <2>2. \A i \in 0 .. Len(s) : kept[i] = IF i = 0 THEN <<>> ELSE Grown(kept[i - 1], s[i], T)
    BY <1>2, ZenonT(30) DEF IsKept
  <2> QED
    BY <2>1, <2>2, ZenonT(30)
<1> QED
  BY <1>3, <1>4, ZenonT(20)

(* What is kept of a sequence is a sequence; nothing is lost when every    *)
(* element is kept.                                                        *)
LEMMA ThoseSeq ==
  ASSUME NEW s \in Seq(Bodies), NEW T
  PROVE  Those(s, T) \in Seq(Bodies)
<1>1. Len(s) \in Nat /\ \A i \in 1 .. Len(s) : s[i] \in Bodies
  BY SMTT(30)
<1>2. PICK f : /\ Those(s, T) = f[Len(s)] /\ f[0] = <<>>
               /\ \A i \in 1 .. Len(s) : f[i] = Grown(f[i - 1], s[i], T)
  BY <1>1, ThoseAre
<1> DEFINE S == {i \in Nat : i <= Len(s) => f[i] \in Seq(Bodies)}
<1>3. 0 \in S
  <2>1. f[0] \in Seq(Bodies)
    BY <1>2, EmptyIs
  <2> QED
    BY <2>1
<1>4. ASSUME NEW i \in Nat, i \in S PROVE i + 1 \in S
  <2> SUFFICES ASSUME i + 1 <= Len(s) PROVE f[i + 1] \in Seq(Bodies)
    OBVIOUS
  <2>1. f[i] \in Seq(Bodies) /\ s[i + 1] \in Bodies /\ (i + 1) \in 1 .. Len(s) /\ (i + 1) - 1 = i
    <3>1. i <= Len(s) /\ (i + 1) \in 1 .. Len(s) /\ (i + 1) - 1 = i
      BY <1>1
    <3> QED
      BY <1>1, <1>4, <3>1, ZenonT(30)
  <2>2. f[i + 1] = Grown(f[i], s[i + 1], T)
    BY <1>2, <2>1
  <2> QED
    BY <2>1, <2>2 DEF Grown
<1> HIDE DEF S
<1>5. Len(s) \in S
  BY <1>1, <1>3, <1>4, NaturalInduction, ZenonT(20)
<1>6. Len(s) <= Len(s)
  BY <1>1
<1> QED
  BY <1>2, <1>5, <1>6, ZenonT(30) DEF S

LEMMA ThoseAll ==
  ASSUME NEW s \in Seq(Bodies)
  PROVE  Those(s, Bodies) = s
<1>1. Len(s) \in Nat /\ \A i \in 1 .. Len(s) : s[i] \in Bodies
  OBVIOUS
<1>2. PICK f : /\ Those(s, Bodies) = f[Len(s)] /\ f[0] = <<>>
               /\ \A i \in 1 .. Len(s) : f[i] = Grown(f[i - 1], s[i], Bodies)
  BY <1>1, ThoseAre
<1> DEFINE prefix(t, n) == t \in Seq(Bodies) /\ Len(t) = n /\ \A j \in 1 .. n : t[j] = s[j]
           S == {i \in Nat : i <= Len(s) => prefix(f[i], i)}
<1>3. 0 \in S
  <2>1. prefix(f[0], 0)
    BY <1>2, EmptyIs, SMTT(30)
  <2> QED
    BY <2>1, SMTT(30)
<1>4. ASSUME NEW i \in Nat, i \in S PROVE i + 1 \in S
  <2> SUFFICES ASSUME i + 1 <= Len(s) PROVE prefix(f[i + 1], i + 1)
    OBVIOUS
  <2> DEFINE t == f[i]
             x == s[i + 1]
  <2>1. prefix(t, i) /\ x \in Bodies /\ (i + 1) \in 1 .. Len(s) /\ (i + 1) - 1 = i
    BY <1>1, <1>4, SMTT(30)
  <2>2. f[i + 1] = Append(t, x)
    BY <1>2, <2>1, ZenonT(30) DEF Grown
  <2>3. t \in Seq(Bodies) /\ Len(t) = i /\ \A j \in 1 .. i : t[j] = s[j]
    BY <2>1
  <2> HIDE DEF t
  <2>4. Append(t, x) \in Seq(Bodies) /\ Len(Append(t, x)) = i + 1 /\ \A j \in 1 .. i + 1 : Append(t, x)[j] = s[j]
    <3>1. x \in Bodies /\ x = s[i + 1]
      BY <2>1, Zenon
    <3> HIDE DEF x
    <3> QED
      BY <2>3, <3>1, SMTT(30)
  <2> QED
    BY <2>2, <2>4, SMTT(30)
<1> HIDE DEF S
<1>5. Len(s) \in S
  BY <1>1, <1>3, <1>4, NaturalInduction
<1>6. Len(s) <= Len(s)
  BY <1>1
<1>7. prefix(Those(s, Bodies), Len(s))
  BY <1>2, <1>5, <1>6, ZenonT(30) DEF S
<1> QED
  BY <1>7

(* The request and the callback together leave what the names select.      *)
LEMMA SelectsNamed ==
  ASSUME NEW q \in Queries, NEW r, r.family = "Unspec", r.body = Filter(q), NEW s \in Seq(Bodies)
  PROVE  Those(Dump(s, r), {b \in Bodies : Keeps(q, b)}) = Those(s, {b \in Bodies : Named(q, b)})
<1> DEFINE D == {b \in Bodies : Selected(r, b)}
           K == {b \in Bodies : Keeps(q, b)}
           N == {b \in Bodies : Named(q, b)}
<1>1. Dump(s, r) = Those(s, D)
  BY Zenon DEF Dump
<1>2. CASE q.op = "rules"
  <2>1. r.body = [table |-> q.table, chain |-> q.chain] /\ r.body # NoBody
    BY <1>2, RulesetAssumption, ZenonT(30) DEF Filter
  <2>2. \A b : Selected(r, b) <=> b.table = q.table /\ b.chain = q.chain
    BY <2>1, SMTT(30) DEF Selected
  <2>3. D = N
    BY <1>2, <2>2 DEF Named
  <2>4. K = Bodies
    BY <1>2 DEF Keeps
  <2>5. Those(s, D) \in Seq(Bodies)
    BY ThoseSeq, Zenon
  <2> HIDE DEF D, K, N
  <2> QED
    BY <1>1, <2>3, <2>4, <2>5, ThoseAll, ZenonT(30) DEF K, N
<1>3. CASE q.op # "rules"
  <2>1. r.body = NoBody
    BY <1>3, ZenonT(30) DEF Filter
  <2>2. D = Bodies
    BY <2>1 DEF Selected
  <2>3. K = N
    BY <1>3 DEF Keeps, Named
  <2>4. Those(s, Bodies) = s
    BY ThoseAll
  <2> HIDE DEF D, K, N
  <2> QED
    BY <1>1, <2>2, <2>3, <2>4, ZenonT(30) DEF K, N
<1> QED
  BY <1>2, <1>3

(* While the answer comes in, it answers the request of this query.        *)
Asked ==
  listPc = "receiving" => request.family = "Unspec" /\ request.body = Filter(query)

SInv == Asked /\ Snapshot

LEMMA SnapshotClose ==
  ASSUME LInv, SInv, Close
  PROVE  SInv'
<1>1. /\ listPc = "receiving" /\ listPc' = "returned" /\ answer' \in {result, "CloseFailed"}
      /\ list' = IF answer' = "Ok" THEN Those(acc, {b \in Bodies : Keeps(query, b)}) ELSE <<>>
      /\ query' = query /\ gen' = gen /\ past' = past
  BY ZenonT(30) DEF Close, Return, storeVars
<1> SUFFICES ASSUME answer' = "Ok"
             PROVE  \E g \in 1 .. gen : list' = Those(past[g], {b \in Bodies : Named(query, b)})
  BY <1>1, ZenonT(30) DEF SInv, Asked, Snapshot
<1>2. result = "Ok" /\ query \in Queries /\ acc \in Seq(Bodies) /\ past \in [1 .. gen -> Seq(Bodies)]
  BY <1>1, ZenonT(30) DEF LInv, TypeOK
<1>3. PICK g \in 1 .. gen :
        /\ \A i \in 1 .. Len(acc) : i \in DOMAIN Dump(past[g], request) /\ acc[i] = Dump(past[g], request)[i]
        /\ Len(acc) + 1 \notin DOMAIN Dump(past[g], request)
  BY <1>2 DEF LInv, WholeDump
<1> DEFINE all == Dump(past[g], request)
<1>4. past[g] \in Seq(Bodies)
  BY <1>2
<1>5. all \in Seq(Bodies)
  BY <1>4, ThoseSeq, Zenon DEF Dump
<1>6. acc = all
  <2>1. /\ \A i \in 1 .. Len(acc) : i \in DOMAIN all /\ acc[i] = all[i]
        /\ Len(acc) + 1 \notin DOMAIN all
    BY <1>3
  <2> HIDE DEF all
  <2>2. DOMAIN all = 1 .. Len(all) /\ Len(all) \in Nat /\ Len(acc) \in Nat
    BY <1>2, <1>5
  <2>3. Len(all) = Len(acc)
    <3>1. Len(all) < Len(acc) + 1
      BY <2>1, <2>2
    <3>2. Len(acc) = 0 \/ Len(acc) \in 1 .. Len(acc)
      BY <2>2
    <3>3. Len(acc) <= Len(all)
      BY <2>1, <2>2, <3>2
    <3> QED
      BY <2>2, <3>1, <3>3, SMTT(30)
  <2>4. acc \in Seq(Bodies) /\ all \in Seq(Bodies) /\ \A i \in 1 .. Len(acc) : acc[i] = all[i]
    BY <1>2, <1>5, <2>1, Zenon
  <2> QED
    BY <2>3, <2>4, SMTT(30)
<1>7. request.family = "Unspec" /\ request.body = Filter(query)
  BY <1>1 DEF SInv, Asked
<1>8. Those(all, {b \in Bodies : Keeps(query, b)}) = Those(past[g], {b \in Bodies : Named(query, b)})
  BY <1>2, <1>4, <1>7, SelectsNamed, ZenonT(30)
<1> QED
  BY <1>1, <1>6, <1>8, Zenon

LEMMA SnapshotNext ==
  ASSUME LInv, SInv, [Next]_vars
  PROVE  SInv'
<1>1. CASE Start \/ SendFails
  <2>1. /\ listPc' # "receiving"
        /\ \/ answer' = answer
           \/ answer' \in {"MissingChainInformation", "NetlinkOpenError", "NetlinkSendError"}
        /\ list' = list /\ query' = query /\ gen' = gen /\ past' = past
    BY <1>1, ZenonT(30) DEF Start, SendFails, Return, storeVars
  <2> QED
    BY <2>1 DEF SInv, Asked, Snapshot
<1>2. CASE SendRequest
  <2>1. /\ request' = GetListOfObjects(query).at[0] /\ query' = query
        /\ answer' = answer /\ list' = list /\ gen' = gen /\ past' = past
    BY <1>2 DEF SendRequest, storeVars
  <2>2. Asked'
    BY <2>1, RequestIs, ZenonT(30) DEF Asked
  <2> QED
    BY <2>1, <2>2, ZenonT(30) DEF SInv, Snapshot
<1>3. CASE Receive
  <2>1. UNCHANGED <<listVars, dumpVars, storeVars>>
    BY <1>3, Zenon DEF Receive
  <2> QED
    BY <2>1 DEF SInv, Asked, Snapshot, listVars, dumpVars, storeVars
<1>4. CASE Close
  BY <1>4, SnapshotClose, SMTT(30)
<1>5. CASE Fill
  <2>1. UNCHANGED <<listVars, request, storeVars>>
    BY <1>5, ZenonT(30) DEF Fill
  <2> QED
    BY <2>1 DEF SInv, Asked, Snapshot, listVars, storeVars
<1>6. CASE Change
  <2>1. /\ gen' = gen + 1 /\ past' = [g \in 1 .. gen' |-> IF g = gen' THEN objs' ELSE past[g]]
        /\ UNCHANGED <<listVars, dumpVars>>
    BY <1>6, Zenon DEF Change
  <2>2. gen \in Nat
    BY DEF LInv, TypeOK
  <2>3. \A g \in 1 .. gen : g \in 1 .. gen' /\ past'[g] = past[g]
    BY <2>1, <2>2, SMTT(30)
  <2> QED
    BY <2>1, <2>3 DEF SInv, Asked, Snapshot, listVars, dumpVars
<1>7. CASE Refuse \/ SocketError
  <2>1. UNCHANGED <<listVars, request, storeVars>>
    BY <1>7, ZenonT(30) DEF Refuse, SocketError, dumpVars
  <2> QED
    BY <2>1 DEF SInv, Asked, Snapshot, listVars, storeVars
<1>8. CASE UNCHANGED vars
  BY <1>8 DEF SInv, Asked, Snapshot, vars, listVars, dumpVars, storeVars
<1> QED
  BY <1>1, <1>2, <1>3, <1>4, <1>5, <1>6, <1>7, <1>8, ZenonT(30) DEF Next, Client

(* A listing that returns Ok has the ruleset of one generation, as far as  *)
(* the arguments of list_tables(), list_chains_for_table() and             *)
(* list_rules_for_chain() (table.rs, chain.rs, rule.rs) name it, whatever  *)
(* other processes changed while the kernel dumped it.                     *)
THEOREM ListingSnapshot == Spec => []Snapshot
<1>1. Init => SInv
  BY DEF Init, SInv, Asked, Snapshot
<1>2. LInv /\ SInv /\ [Next]_vars => SInv'
  BY SnapshotNext
<1>3. SInv => Snapshot
  BY DEF SInv
<1> QED
  BY <1>1, <1>2, <1>3, ListingInvariant, PTL DEF Spec

==============================================================================
