------------------------------ MODULE BatchSend ------------------------------
(***************************************************************************)
(* Batch::send() (batch.rs) end to end: a batch is composed, written to a  *)
(* netlink socket, walked and executed by the kernel, and the answers are  *)
(* collected by recv_and_process() inside socket_close_wrapper().          *)
(*                                                                         *)
(* The kernel is external.  It is modelled as the code relies on it: it    *)
(* follows the nlmsg_len fields of the datagram, gives every request a     *)
(* verdict, commits at BATCH_END if none failed, and answers each request  *)
(* that failed or asked for an ACK, in order, one datagram each, before    *)
(* send() returns; the answer to a request that failed repeats it.  It     *)
(* may refuse the batch as a whole, fail to commit it, or run out of space *)
(* in the socket's receive queue.                                          *)
(***************************************************************************)
EXTENDS Batch, Sequences

CONSTANTS
  MaxSize,  \* nft_nlmsg_maxsize()
  Errnos    \* the errors a request may fail with

ASSUME ErrnosAssumption == Errnos \subseteq Nat \ {0}

(* An acknowledgement that reports success fits in a message.              *)
ASSUME AckFitsAssumption ==
  MaxSize \in Nat /\ SizeOfNlmsghdr + SizeOfNlmsgerr <= MaxSize

VARIABLES
  \* recv_and_process(), see RecvLoop
  inbox, sockErr, mem, bufStart, endPos, maxSeq, cb, acc, pc, result, errno,
  \* send()
  sendPc,   \* "build", "opened", "sending", "receiving", "returned"
  fd,       \* the socket: "none", "open", "closed"
  answer,   \* what send() returned
  \* the kernel
  ruleset,  \* the committed objects
  kpos,     \* offset of the request being executed
  kstage,   \* the ruleset as modified by the batch so far
  kreplies, \* the replies collected, and then sent, in order
  kout,     \* "none", "committed", "aborted"
  \* history
  want      \* the ruleset that the calls to add() describe

recvVars   == <<inbox, sockErr, mem, bufStart, endPos, maxSeq, cb, acc, pc,
                result, errno>>
kernelVars == <<ruleset, kpos, kstage, kreplies, kout>>
sendVars   == <<sendPc, fd, answer>>
vars       == <<batchVars, recvVars, sendVars, kernelVars, want>>

(* Every answer that a request of a batch may get.                         *)
Answerable ==
  [seq : 0 .. SeqLimit,
   len : {HeadersLen} \cup {HeadersLen + Pad(SizeOf[b]) : b \in Bodies}]

ReplyDatagrams == {Reply(q[1], q[2]) : q \in Answerable \X (Errnos \cup {0})}

R == INSTANCE RecvLoop WITH Datagrams <- ReplyDatagrams, MaxSeqs <- Nat,
                            MaxInbox <- SeqLimit, MaxAcc <- 0

(* What the caller and the ruleset know of the transaction.                *)
Stage ==
  CASE answer = "Ok" -> "ok"
    [] answer \in {"NetlinkRecvError", "CloseFailed"} -> "unknown"
    [] answer \notin {"none", "Ok", "NetlinkRecvError", "CloseFailed"} ->
         "refused"
    [] answer = "none" /\ kout = "none" -> "open"
    [] answer = "none" /\ kout # "none" -> kout

T == INSTANCE Transaction WITH stage <- Stage

Init ==
  /\ BatchInit
  /\ R!Idle
  /\ sendPc = "build"
  /\ fd = "none"
  /\ answer = "none"
  /\ ruleset \in SUBSET Bodies
  /\ kpos = 0
  /\ kstage = ruleset
  /\ kreplies = <<>>
  /\ kout = "none"
  /\ want = ruleset

(***************************************************************************)
(* The caller composes the batch.                                          *)
(***************************************************************************)
Compose(b, t) ==
  /\ sendPc = "build"
  /\ Add(b, t)
  /\ want' = T!Apply(want, b, t)
  /\ UNCHANGED <<recvVars, sendVars, kernelVars>>

(***************************************************************************)
(* Batch::send()                                                           *)
(***************************************************************************)
Return(a) ==
  /\ sendPc' = "returned"
  /\ answer' = a

OpenSocket ==
  /\ sendPc = "build"
  /\ \/ sendPc' = "opened" /\ fd' = "open" /\ UNCHANGED answer
     \/ Return("NetlinkOpenError") /\ UNCHANGED fd
  /\ UNCHANGED <<batchVars, recvVars, kernelVars, want>>

(* bind() is expected to succeed: a failure panics.                        *)
BindFails ==
  /\ sendPc = "opened"
  /\ Return("Panic")
  /\ UNCHANGED <<batchVars, recvVars, kernelVars, fd, want>>

(* finalize(), then send().  A netlink send takes the whole datagram or    *)
(* fails, so the loop around it makes one turn; on failure `?` returns     *)
(* before socket_close_wrapper() is entered.                               *)
Submit ==
  /\ sendPc = "opened"
  /\ Finalize
  /\ \/ sendPc' = "sending" /\ UNCHANGED answer
     \/ Return("NetlinkSendError")
  /\ UNCHANGED <<recvVars, kernelVars, fd, want>>

(* send() is back: wait for the acknowledgement of the last object.        *)
Collect ==
  /\ sendPc = "sending"
  /\ kout # "none"
  /\ R!Begin(LastAck, "none")
  /\ sendPc' = "receiving"
  /\ UNCHANGED <<batchVars, kernelVars, fd, answer, want>>

Receive ==
  /\ sendPc = "receiving"
  /\ R!Step
  /\ UNCHANGED <<batchVars, kernelVars, sendVars, want>>

(* Mutant: an error returns before the socket is closed.                   *)
CloseOnOkOnly ==
  /\ sendPc = "receiving"
  /\ pc = "returned"
  /\ fd' = IF result = "Ok" THEN "closed" ELSE fd
  /\ Return(result)
  /\ UNCHANGED <<batchVars, recvVars, kernelVars, want>>

(* socket_close_wrapper(): the error of close() comes before the result.   *)
Close ==
  /\ sendPc = "receiving"
  /\ pc = "returned"
  /\ fd' = "closed"
  /\ \/ Return(result)
     \/ Return("CloseFailed")
  /\ UNCHANGED <<batchVars, recvVars, kernelVars, want>>

(***************************************************************************)
(* The kernel, inside send().                                              *)
(***************************************************************************)
request == writer.at[kpos]

(* The receive queue takes all the replies, or overruns at some point.     *)
Enqueue(replies) ==
  /\ \/ inbox' = replies /\ UNCHANGED sockErr
     \/ \E k \in 0 .. Len(replies) - 1 :
          inbox' = SubSeq(replies, 1, k) /\ sockErr' = "ENOBUFS"
  /\ UNCHANGED <<mem, bufStart, endPos, maxSeq, cb, acc, pc, result, errno>>

Working == sendPc = "sending" /\ kout = "none"

(* The sender lacks a privilege, or there is no memory: one error, in      *)
(* answer to BATCH_BEGIN.                                                  *)
KRefuse ==
  /\ Working
  /\ request.type = "BATCH_BEGIN"
  /\ \E e \in Errnos : kreplies' = <<Reply(request, e)>>
  /\ Enqueue(kreplies')
  /\ kout' = "aborted"
  /\ UNCHANGED <<batchVars, sendVars, ruleset, kpos, kstage, want>>

KBegin ==
  /\ Working
  /\ request.type = "BATCH_BEGIN"
  /\ kpos' = kpos + Pad(request.len)
  /\ kstage' = ruleset
  /\ UNCHANGED <<batchVars, recvVars, sendVars, ruleset, kreplies, kout, want>>

KExecute(e) ==
  /\ Working
  /\ request.type = "NFT"
  /\ kpos' = kpos + Pad(request.len)
  /\ kstage' = IF e = 0 THEN T!Apply(kstage, request.body, request.op)
               ELSE kstage
  /\ kreplies' = IF e # 0 \/ "ACK" \in request.flags
                 THEN Append(kreplies, Reply(request, e))
                 ELSE kreplies
  /\ UNCHANGED <<batchVars, recvVars, sendVars, ruleset, kout, want>>

Failed(replies) ==
  \E i \in 1 .. Len(replies) : replies[i].at[0].error # 0

KCommit ==
  /\ Working
  /\ request.type = "BATCH_END"
  /\ ~Failed(kreplies)
  /\ ruleset' = kstage
  /\ kout' = "committed"
  /\ Enqueue(kreplies)
  /\ UNCHANGED <<batchVars, sendVars, kpos, kstage, kreplies, want>>

(* A request failed, or the commit itself does: that error answers         *)
(* BATCH_BEGIN and comes first.                                            *)
KAbort ==
  /\ Working
  /\ request.type = "BATCH_END"
  /\ \/ Failed(kreplies) /\ UNCHANGED kreplies
     \/ /\ ~Failed(kreplies)
        /\ \E e \in Errnos :
             kreplies' = <<Reply(writer.at[0], e)>> \o kreplies
  /\ Enqueue(kreplies')
  /\ kout' = "aborted"
  /\ UNCHANGED <<batchVars, sendVars, ruleset, kpos, kstage, want>>

Kernel ==
  \/ KRefuse \/ KBegin \/ KCommit \/ KAbort
  \/ \E e \in Errnos \cup {0} : KExecute(e)

Send == OpenSocket \/ BindFails \/ Submit \/ Collect \/ Receive \/ Close

Next ==
  \/ \E b \in Bodies, t \in {"Add", "Del"} : Compose(b, t)
  \/ Send
  \/ Kernel

Spec == Init /\ [][Next]_vars

(* send() runs on one thread and executes its next statement whenever it   *)
(* is not blocked in recv(); the kernel finishes the system calls it is    *)
(* in.  Nothing obliges the caller to go on composing or to call send().   *)
FairSpec ==
  /\ Spec
  /\ WF_vars(sendPc # "build" /\ Send)
  /\ WF_vars(Kernel)

(***************************************************************************)
(* Properties.                                                             *)
(***************************************************************************)

Answers ==
  {"none", "Ok", "NetlinkOpenError", "NetlinkSendError", "NetlinkRecvError",
   "NetlinkError", "NlMsgTooSmall", "CloseFailed", "Panic"}

(* Types; in particular only one of the decoding errors of                 *)
(* recv_and_process() can come out of send().                              *)
TypeOK ==
  /\ sendPc \in {"build", "opened", "sending", "receiving", "returned"}
  /\ fd \in {"none", "open", "closed"}
  /\ answer \in Answers
  /\ ruleset \subseteq Bodies
  /\ want \subseteq Bodies
  /\ kstage \subseteq Bodies
  /\ kpos \in DOMAIN writer.at
  /\ kreplies \in Seq(ReplyDatagrams)
  /\ kout \in {"none", "committed", "aborted"}

(* send() implements Transaction: the ruleset changes once, to exactly     *)
(* what the calls to add() describe, or not at all; Ok is only returned    *)
(* when it did, NetlinkError, NetlinkSendError and NetlinkOpenError only   *)
(* when it did not.  NetlinkRecvError and CloseFailed leave it open.       *)
Atomic == T!Spec

(* Of several failing requests, the one reported is the first the kernel   *)
(* answered, although a successful acknowledgement may come before it.     *)
(* Its errno is lost, behind a DecodeError, only if the answer, which      *)
(* repeats the request, is longer than nft_nlmsg_maxsize() and the buffer  *)
(* cut it short.                                                           *)
ReportsFirstError ==
  answer \in {"NetlinkError", "NlMsgTooSmall"} =>
    \E i \in 1 .. Len(kreplies) :
      /\ kreplies[i].at[0].error # 0
      /\ \A j \in 1 .. i - 1 : kreplies[j].at[0].error = 0
      /\ answer = "NetlinkError" => errno = R!Abs(kreplies[i].at[0].error)
      /\ answer = "NlMsgTooSmall" => kreplies[i].size > MaxSize

(* The socket is closed on every way out of send() but two: a failed       *)
(* send() and a failed bind() leave it open, the `?` and the panic being   *)
(* outside socket_close_wrapper().                                         *)
SocketReleased ==
  (sendPc = "returned" /\ fd = "open") =>
    answer \in {"NetlinkSendError", "Panic"}

(* When send() reports success there is no unread answer left.             *)
AllAcksRead == answer = "Ok" => inbox = <<>> /\ sockErr = "none"

(* A batch with at least one object gets an answer: recv() is never called *)
(* once the last acknowledgement has been read or lost.                    *)
NonEmptyReturns ==
  (sendPc = "opened" /\ LastAck > 0) ~> (sendPc = "returned")

(* finalize() is documented to "Return None if there is no object in the   *)
(* batch (this could block forever)", so that sending never blocks for     *)
(* ever, whatever the batch holds.                                         *)
AlwaysReturns == (sendPc = "opened") ~> (sendPc = "returned")
==============================================================================
