------------------------------- MODULE Listing -------------------------------
(***************************************************************************)
(* list_tables(), list_chains_for_table() and list_rules_for_chain() on    *)
(* top of list_objects_with_data() (query.rs): a dump request, then        *)
(* recv_and_process() until the kernel says NLMSG_DONE, while other        *)
(* processes go on changing the ruleset.                                   *)
(*                                                                         *)
(* The kernel is external.  It dumps the objects of the requested kind in  *)
(* several datagrams and remembers between two of them only how many       *)
(* objects it has sent and which generation of the ruleset it had read;    *)
(* when the generation has changed since, the next message it sends        *)
(* carries NLM_F_DUMP_INTR.  Family AF_UNSPEC in the request stands for    *)
(* every family; table and chain names in it select the rules of a chain.  *)
(* It may refuse the request as a whole (EPERM without CAP_NET_ADMIN), and *)
(* any recv() may fail.                                                    *)
(***************************************************************************)
EXTENDS Writer, Sequences

CONSTANTS
  MaxSize,     \* nft_nlmsg_maxsize()
  Queries,     \* the calls made: [op, family, table, chain]
  NoName,      \* a name that was never set
  FilterSize,  \* get_size() of the rule that serves as a filter
  Errnos,      \* the errors that a request may be refused with
  Opaque,      \* objects whose attributes the crate cannot decode
  Initial,     \* the rulesets that a listing may start with
  ObjLen,      \* nlmsg_len of a dumped object
  ChunkLen,    \* bound: objects in one datagram
  MaxGen       \* bound: generations of the ruleset

VARIABLES
  \* recv_and_process(), see RecvLoop
  inbox, sockErr, mem, bufStart, endPos, maxSeq, cb, acc, pc, result, errno,
  \* the listing function
  query,    \* its arguments
  listPc,   \* "start", "opened", "receiving", "returned"
  fd,       \* the socket: "none", "open", "closed"
  answer,   \* what it returned
  list,     \* the vector inside Ok
  \* the kernel
  objs,     \* the objects of the requested kind, in order
  gen,      \* the generation of the ruleset
  request,  \* the request being answered, NoBody before it is sent
  sent,     \* objects already dumped
  dumpGen,  \* generation the last datagram was read from, 0 before the first
  dumping,  \* TRUE until NLMSG_DONE is queued
  \* history
  past      \* generation -> objs

recvVars   == <<inbox, sockErr, mem, bufStart, endPos, maxSeq, cb, acc, pc,
                result, errno>>
listVars   == <<query, listPc, fd, answer, list>>
dumpVars   == <<request, sent, dumpGen, dumping>>
storeVars  == <<objs, gen, past>>
vars       == <<recvVars, listVars, dumpVars, storeVars>>

ASSUME RulesetAssumption ==
  /\ Errnos \subseteq Nat \ {0}
  /\ Opaque \subseteq Bodies /\ Initial \subseteq Seq(Bodies) /\ MaxGen \in Nat \ {0}
  /\ \A q \in Queries : NoBody # [table |-> q.table, chain |-> q.chain]

(* nlmsg_len of NLMSG_DONE: a header and the result of the dump.           *)
DoneLen == SizeOfNlmsghdr + 4

(* A datagram of the dump, of aligned messages, fits in a message buffer,  *)
(* and so does the refusal of a request, which repeats it.                 *)
ASSUME DumpAssumption ==
  /\ MaxSize \in Nat /\ ChunkLen \in Nat
  /\ ObjLen \in Nat /\ ObjLen % 4 = 0 /\ ObjLen >= SizeOfNlmsghdr + SizeOfNfgenmsg
  /\ ChunkLen * ObjLen + DoneLen <= MaxSize
  /\ FilterSize \in Nat
  /\ SizeOfNlmsgerr + HeadersLen + Pad(FilterSize) <= MaxSize

(* A message of the dump (external): an object or NLMSG_DONE.              *)
DumpMessage(type, body, intr) ==
  [type |-> type, len |-> IF type = "DONE" THEN DoneLen ELSE ObjLen, seq |-> 0,
   flags |-> {"MULTI"} \cup (IF intr THEN {"DUMP_INTR"} ELSE {}), error |-> 0,
   version |-> NFNETLINK_V0,
   body |-> IF body \in Bodies \ Opaque THEN body ELSE Undecodable]

(* A datagram of n objects, from the one after `sent` on, and NLMSG_DONE.  *)
DumpDatagram(all, n, done, intr) ==
  [size |-> n * ObjLen + (IF done THEN DoneLen ELSE 0),
   at |-> [o \in {i * ObjLen : i \in 0 .. n - 1} \cup (IF done THEN {n * ObjLen} ELSE {}) |->
             IF o = n * ObjLen THEN DumpMessage("DONE", NoBody, intr /\ o = 0)
             ELSE DumpMessage("NFT", all[sent + 1 + o \div ObjLen], intr /\ o = 0)]]

R == INSTANCE RecvLoop WITH Datagrams <- {}, MaxSeqs <- {}, MaxInbox <- 0,
                            MaxAcc <- 0

Init ==
  /\ R!Idle
  /\ query \in Queries
  /\ listPc = "start"
  /\ fd = "none"
  /\ answer = "none"
  /\ list = <<>>
  /\ objs \in Initial
  /\ gen = 1
  /\ request = NoBody
  /\ sent = 0
  /\ dumpGen = 0
  /\ dumping = FALSE
  /\ past = <<objs>>

(***************************************************************************)
(* The client.                                                             *)
(***************************************************************************)

(* get_list_of_objects(): the header always says ProtocolFamily::Unspec;   *)
(* list_rules_for_chain() passes Rule::new(chain) as the filter, the other *)
(* two none.                                                               *)
GetListOfObjects(q) ==
  LET filter == IF q.op = "rules" THEN [table |-> q.table, chain |-> q.chain]
                ELSE NoBody
      opened == WriteHeader(EmptyWriter,
                  [type |-> "NFT", op |-> "Get", family |-> "Unspec",
                   flags |-> {"REQUEST", "DUMP"}, seq |-> 0, resId |-> "none",
                   len |-> 0, body |-> filter])
  IN  FinalizeWritingObject(
        IF q.op = "rules" THEN AddDataZeroed(opened, FilterSize) ELSE opened)

(* The elements of s that are in T, in their order.                        *)
Those(s, T) ==
  LET kept[i \in 0 .. Len(s)] ==
        IF i = 0 THEN <<>>
        ELSE IF s[i] \in T THEN Append(kept[i - 1], s[i]) ELSE kept[i - 1]
  IN  kept[Len(s)]

(* Mutant: list_chains_for_table() returns the chains of every table.      *)
KeepsAll(q, b) == TRUE

(* The callbacks: only list_chains_for_table() looks at the object again,  *)
(* and compares the name of its table.                                     *)
Keeps(q, b) == q.op = "chains" => b.table = q.table

Return(a) ==
  /\ listPc' = "returned"
  /\ answer' = a

(* Rule::new() fails on a chain without names, before anything is opened.  *)
Unnamed(q) == q.op = "rules" /\ NoName \in {q.table, q.chain}

Start ==
  /\ listPc = "start"
  /\ \/ Unnamed(query) /\ Return("MissingChainInformation") /\ UNCHANGED fd
     \/ ~Unnamed(query) /\ Return("NetlinkOpenError") /\ UNCHANGED fd
     \/ /\ ~Unnamed(query)
        /\ listPc' = "opened"
        /\ fd' = "open"
        /\ UNCHANGED answer
  /\ UNCHANGED <<recvVars, query, list, dumpVars, storeVars>>

(* send() and the start of recv_and_process(); `?` after a failed send()   *)
(* returns outside socket_close_wrapper().                                 *)
SendRequest ==
  /\ listPc = "opened"
  /\ request' = GetListOfObjects(query).at[0]
  /\ dumping' = TRUE
  /\ R!Begin(R!NoSeq, "decode")
  /\ listPc' = "receiving"
  /\ UNCHANGED <<query, fd, answer, list, sent, dumpGen, storeVars>>

SendFails ==
  /\ listPc = "opened"
  /\ Return("NetlinkSendError")
  /\ UNCHANGED <<recvVars, query, fd, list, dumpVars, storeVars>>

Receive ==
  /\ listPc = "receiving"
  /\ R!Step
  /\ UNCHANGED <<listVars, dumpVars, storeVars>>

(* Mutant: an error returns before the socket is closed.                   *)
CloseOnOkOnly ==
  /\ listPc = "receiving"
  /\ pc = "returned"
  /\ fd' = IF result = "Ok" THEN "closed" ELSE fd
  /\ Return(result)
  /\ list' = IF answer' = "Ok"
             THEN Those(acc, {b \in Bodies : Keeps(query, b)})
             ELSE <<>>
  /\ UNCHANGED <<recvVars, query, dumpVars, storeVars>>

(* socket_close_wrapper(), then the vector is dropped or returned.         *)
Close ==
  /\ listPc = "receiving"
  /\ pc = "returned"
  /\ fd' = "closed"
  /\ Return(result) \/ Return("CloseFailed")
  /\ list' = IF answer' = "Ok"
             THEN Those(acc, {b \in Bodies : Keeps(query, b)})
             ELSE <<>>
  /\ UNCHANGED <<recvVars, query, dumpVars, storeVars>>

(***************************************************************************)
(* The kernel and the other processes.                                     *)
(***************************************************************************)
Selected(r, b) ==
  /\ r.family \in {"Unspec", b.family}
  /\ r.body = NoBody \/ r.body = [table |-> b.table, chain |-> b.chain]

(* The objects of s that answer request r.                                 *)
Dump(s, r) == Those(s, {b \in Bodies : Selected(r, b)})

(* Another batch is committed: an object is appended or removed.           *)
Change ==
  /\ gen < MaxGen
  /\ \/ \E b \in Bodies \ {objs[i] : i \in DOMAIN objs} : objs' = Append(objs, b)
     \/ \E i \in DOMAIN objs :
          objs' = SubSeq(objs, 1, i - 1) \o SubSeq(objs, i + 1, Len(objs))
  /\ gen' = gen + 1
  /\ past' = [g \in 1 .. gen' |-> IF g = gen' THEN objs' ELSE past[g]]
  /\ UNCHANGED <<recvVars, listVars, dumpVars>>

(* The kernel fills the next datagram, resuming after the objects it has   *)
(* counted: some objects, NLMSG_DONE, or the last objects and NLMSG_DONE.  *)
Fill ==
  /\ fd = "open"
  /\ dumping
  /\ inbox = <<>>
  /\ LET all == Dump(objs, request)
     IN  \E n \in 0 .. ChunkLen, done \in BOOLEAN :
           /\ sent + 1 .. sent + n \subseteq DOMAIN all
           /\ done => sent + n + 1 \notin DOMAIN all
           /\ n > 0 \/ done
           /\ inbox' = <<DumpDatagram(all, n, done, dumpGen # 0 /\ gen # dumpGen)>>
           /\ sent' = sent + n
           /\ dumping' = ~done
  /\ dumpGen' = gen
  /\ UNCHANGED <<sockErr, mem, bufStart, endPos, maxSeq, cb, acc, pc, result,
                 errno, listVars, request, storeVars>>

(* The kernel answers the request with an error instead of a dump.         *)
Refuse ==
  /\ fd = "open"
  /\ dumping
  /\ dumpGen = 0
  /\ inbox = <<>>
  /\ \E e \in Errnos : inbox' = <<Reply(request, e)>>
  /\ dumping' = FALSE
  /\ UNCHANGED <<sockErr, mem, bufStart, endPos, maxSeq, cb, acc, pc, result,
                 errno, listVars, request, sent, dumpGen, storeVars>>

(* The next recv() will fail.                                              *)
SocketError ==
  /\ listPc = "receiving"
  /\ R!Overrun
  /\ UNCHANGED <<listVars, dumpVars, storeVars>>

Client == Start \/ SendRequest \/ SendFails \/ Receive \/ Close

Next == Client \/ Fill \/ Refuse \/ SocketError \/ Change

(* The caller's thread runs on unless it waits in recv(); the kernel fills *)
(* the queue that recv() has emptied, unless it refuses the request.       *)
(* Nothing else needs ever to happen.                                      *)
Spec ==
  /\ Init
  /\ [][Next]_vars
  /\ WF_vars(Client)
  /\ WF_vars(Fill)

(***************************************************************************)
(* Properties.                                                             *)
(***************************************************************************)

Answers ==
  {"none", "Ok", "MissingChainInformation", "NetlinkOpenError",
   "NetlinkSendError", "NetlinkRecvError", "NetlinkError", "CloseFailed",
   "ConcurrentGenerationUpdate", "UndecodableObject"}

(* Types.  Of the errors of recv_and_process() a listing may return those  *)
(* of the socket, of the kernel, of a dump that was interrupted and of an  *)
(* object; the ones that would mean that the framing was lost (a panic,    *)
(* BufTooSmall, NlMsgTooSmall, UnsupportedType, InvalidSubsystem,          *)
(* InvalidVersion, UndecidableMessageTermination) it never returns.        *)
TypeOK ==
  /\ query \in Queries
  /\ listPc \in {"start", "opened", "receiving", "returned"}
  /\ fd \in {"none", "open", "closed"}
  /\ answer \in Answers
  /\ acc \in Seq(Bodies)
  /\ objs \in Seq(Bodies)
  /\ gen \in 1 .. MaxGen
  /\ past \in [1 .. gen -> Seq(Bodies)]
  /\ sent \in Nat
  /\ dumpGen \in 0 .. gen
  /\ dumping \in BOOLEAN

(* When the receive loop ends well, it has received the kernel's answer to *)
(* the request as it was in one generation, whole and in order, although   *)
(* the dump spans several datagrams, the kernel resumes by position, and   *)
(* the ruleset may change between any two of them.                         *)
WholeDump ==
  result = "Ok" =>
    \E g \in 1 .. gen :
      LET all == Dump(past[g], request)
      IN  /\ \A i \in 1 .. Len(acc) : i \in DOMAIN all /\ acc[i] = all[i]
          /\ Len(acc) + 1 \notin DOMAIN all

(* What the names in the arguments of a listing function select.           *)
Named(q, b) ==
  /\ q.op \in {"chains", "rules"} => b.table = q.table
  /\ q.op = "rules" => b.chain = q.chain

(* A successful listing is the ruleset of one generation as far as the     *)
(* arguments name it: what the request asks of the kernel and what the     *)
(* callback drops leave no object out and no other in, and no object is    *)
(* skipped because it cannot be decoded.                                   *)
Snapshot ==
  answer = "Ok" =>
    \E g \in 1 .. gen : list = Those(past[g], {b \in Bodies : Named(query, b)})

(* An error that comes out of the receive loop tells what happened: the    *)
(* ruleset was changed before the last datagram was read from it, or it    *)
(* held an object of the requested kind that the crate cannot decode, or   *)
(* the kernel refused the request with this errno and dumped nothing.      *)
FailureIsReal ==
  /\ result = "ConcurrentGenerationUpdate" => dumpGen > 1
  /\ result = "UndecodableObject" =>
       \E g \in 1 .. dumpGen : \E i \in DOMAIN past[g] :
         past[g][i] \in Opaque /\ Selected(request, past[g][i])
  /\ result = "NetlinkError" => dumpGen = 0 /\ errno \in Errnos

(* The socket is left open on one way out only, a failed send().           *)
SocketReleased ==
  (listPc = "returned" /\ fd = "open") => answer = "NetlinkSendError"

(* A listing ends, with or without success.                                *)
Returns == (listPc = "opened") ~> (listPc = "returned")

(* list_rules_for_chain() says of its filter: "only retrieve rules from    *)
(* the currently targetted chain".                                         *)
OnlyTargetedChain ==
  (answer = "Ok" /\ query.op = "rules") =>
    \A i \in DOMAIN list :
      <<list[i].family, list[i].table, list[i].chain>> =
        <<query.family, query.table, query.chain>>

==============================================================================
