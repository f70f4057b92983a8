------------------------------ MODULE WsSession ------------------------------
(***************************************************************************)
(* One WebSocket session of the acceptor (internal/network/acceptor,       *)
(* type wsSession): the receive goroutine, the send goroutine, the user    *)
(* goroutines that call Send and Close, the parent context and the peer.   *)
(*                                                                         *)
(* A Go channel send is a select: when several of its cases are ready one  *)
(* is picked at random, when none is ready the goroutine parks.  Closing a *)
(* Done channel releases all parked senders in one step.  A send on a      *)
(* closed channel panics; a panic in a session goroutine ends the process, *)
(* which the model represents by a state with no successor.                *)
(***************************************************************************)
EXTENDS Naturals, Sequences, Functions

CONSTANTS
  Callers,        \* user goroutines holding the session
  SendQueueSize,  \* Config.SendQueueSize
  RecvQueueSize,  \* Config.RecvQueueSize
  ReadTimeout,    \* TRUE iff Config.ReadTimeout > 0
  WriteTimeout,   \* TRUE iff Config.WriteTimeout > 0
  MaxSends,       \* bound: Send calls of one goroutine
  MaxFrames       \* bound: frames the peer sends

Senders == Callers \cup {"recvLoop"}   \* OnMessage may call Send
Threads == Senders \cup {"sendLoop"}
Message == [by : Senders, n : 1..MaxSends]

\* NewWSAcceptor replaces queue sizes <= 0 by a default.
ASSUME SessionAssumption ==
  /\ "recvLoop" \notin Callers /\ "sendLoop" \notin Callers
  /\ SendQueueSize \in Nat \ {0} /\ RecvQueueSize \in Nat \ {0}
  /\ ReadTimeout \in BOOLEAN /\ WriteTimeout \in BOOLEAN
  /\ MaxSends \in Nat /\ MaxFrames \in Nat

VARIABLES
  ctxDone,     \* s.ctx is cancelled
  connClosed,  \* s.conn.Close has been called
  sendClosed,  \* close(s.sendChan) has been called
  recvClosed,  \* close(s.recvChan) has been called
  closeStage,  \* how far closeOnce.Do has got
  closer,      \* the goroutine running closeOnce.Do
  cause,       \* its argument
  onClosed,    \* number of OnClosed callbacks
  pc,          \* where each goroutine is
  why,         \* the argument of a goroutine's pending close
  sendQ,       \* the buffer of sendChan
  parked,      \* messages of the goroutines parked on the full sendChan, FIFO
  recvQ,       \* the buffer of recvChan: indices into peerSent
  seq,         \* sendLoop's counter
  hand,        \* sendLoop's current message
  peerSent,    \* kinds of the frames the peer has sent
  readN,       \* number of those frames recvLoop has read
  peerGone,    \* the peer has disconnected
  errs,        \* stages reported through OnError
  panic,       \* which send hit a closed channel
  sends,       \* Send calls started by each goroutine
  failed,      \* history: messages whose Send returned an error
  accepted,    \* history: messages whose Send was given a slot, in order
  written,     \* history: frames written to the connection
  skipped,     \* history: seq numbers whose Encode failed
  handled,     \* history: frames passed to OnMessage
  pulled       \* history: frames taken from Recv()

context  == <<ctxDone, connClosed, sendClosed, recvClosed>>
once     == <<closeStage, closer, cause, onClosed>>
outbound == <<sendQ, parked, seq, hand, accepted, written, skipped>>
calls    == <<sends, failed>>
inbound  == <<recvQ, peerSent, readN, peerGone, handled, pulled>>
vars == <<context, once, outbound, calls, inbound, pc, why, errs, panic>>

NoMsg == [by |-> "none", n |-> 0]
Kinds  == {"packet", "undecodable", "other"}   \* "other": text frame, or no header
Causes == {"nil", "ErrRecvFailed", "writeError"}

Goto(t, label) == pc' = [pc EXCEPT ![t] = label]

\* s.close(c) begins: queue on closeOnce.
CloseWith(t, c) == Goto(t, "close") /\ why' = [why EXCEPT ![t] = c]

Init ==
  /\ ctxDone = FALSE /\ connClosed = FALSE /\ sendClosed = FALSE /\ recvClosed = FALSE
  /\ closeStage = "open" /\ closer = "none" /\ cause = "nil" /\ onClosed = 0
  /\ pc = [t \in Threads |-> IF t \in Callers THEN "idle"
                             ELSE IF t = "recvLoop" THEN "check" ELSE "select"]
  /\ why = [t \in Threads |-> "nil"]
  /\ sendQ = <<>> /\ parked = <<>> /\ seq = 0 /\ hand = NoMsg
  /\ recvQ = <<>> /\ peerSent = <<>> /\ readN = 0 /\ peerGone = FALSE
  /\ sends = [t \in Senders |-> 0] /\ failed = {}
  /\ accepted = <<>> /\ written = <<>> /\ skipped = {}
  /\ handled = <<>> /\ pulled = <<>>
  /\ errs = {} /\ panic = "none"

-----------------------------------------------------------------------------
(* Send: the select of enqueueOutbound.                                    *)

Pending(t) == [by |-> t, n |-> sends[t]]
AfterSend(t) == IF t \in Callers THEN "idle" ELSE "check"
MayCall(t) == pc[t] = IF t \in Callers THEN "idle" ELSE "handler"

CallSend(t) ==
  /\ MayCall(t) /\ sends[t] < MaxSends
  /\ sends' = [sends EXCEPT ![t] = @ + 1]
  /\ Goto(t, "sending")
  /\ UNCHANGED <<context, once, outbound, failed, inbound, why, errs, panic>>

SendCancelled(t) ==
  /\ pc[t] = "sending" /\ ctxDone
  /\ failed' = failed \cup {Pending(t)}
  /\ Goto(t, AfterSend(t))
  /\ UNCHANGED <<context, once, outbound, sends, inbound, why, errs, panic>>

\* Mutant: the context is looked at once more after the message has been queued.
SendQueuedThenChecks(t) ==
  /\ pc[t] = "sending" /\ ~sendClosed /\ Len(sendQ) < SendQueueSize
  /\ sendQ' = Append(sendQ, Pending(t))
  /\ accepted' = Append(accepted, Pending(t))
  /\ failed' = IF ctxDone THEN failed \cup {Pending(t)} ELSE failed
  /\ Goto(t, AfterSend(t))
  /\ UNCHANGED <<context, once, parked, seq, hand, written, skipped, sends, inbound,
                 why, errs, panic>>

\* Mutant: the select sits in a loop that a successful send does not leave.
SendQueuedAgain(t) ==
  /\ pc[t] = "sending" /\ ~sendClosed /\ Len(sendQ) < SendQueueSize
  /\ sendQ' = Append(sendQ, Pending(t))
  /\ accepted' = Append(accepted, Pending(t))
  /\ UNCHANGED <<context, once, parked, seq, hand, written, skipped, calls, inbound,
                 pc, why, errs, panic>>

SendQueued(t) ==
  /\ pc[t] = "sending" /\ ~sendClosed /\ Len(sendQ) < SendQueueSize
  /\ sendQ' = Append(sendQ, Pending(t))
  /\ accepted' = Append(accepted, Pending(t))
  /\ Goto(t, AfterSend(t))
  /\ UNCHANGED <<context, once, parked, seq, hand, written, skipped, calls, inbound,
                 why, errs, panic>>

SendParks(t) ==
  /\ pc[t] = "sending" /\ ~ctxDone /\ ~sendClosed /\ Len(sendQ) = SendQueueSize
  /\ parked' = Append(parked, Pending(t))
  /\ Goto(t, "parked")
  /\ UNCHANGED <<context, once, sendQ, seq, hand, accepted, written, skipped, calls,
                 inbound, why, errs, panic>>

SendPanics(t) ==
  /\ pc[t] = "sending" /\ sendClosed
  /\ panic' = "sendChan"
  /\ UNCHANGED <<context, once, outbound, calls, inbound, pc, why, errs>>

Send(t) == SendCancelled(t) \/ SendQueued(t) \/ SendParks(t) \/ SendPanics(t)

-----------------------------------------------------------------------------
(* Close: closeOnce.Do and the steps inside it.                            *)

\* Cancelling a context releases every goroutine parked in Send.
CancelCtx ==
  /\ ctxDone' = TRUE
  /\ parked' = <<>>
  /\ failed' = failed \cup Range(parked)
  /\ pc' = [t \in Threads |-> IF pc[t] = "parked" THEN AfterSend(t) ELSE pc[t]]

\* The context of Serve or Dial is cancelled.
ParentCancel ==
  /\ ~ctxDone
  /\ CancelCtx
  /\ UNCHANGED <<connClosed, sendClosed, recvClosed, once, sendQ, seq, hand, accepted,
                 written, skipped, sends, inbound, why, errs, panic>>

CallClose(t) ==
  /\ MayCall(t)
  /\ CloseWith(t, "nil")
  /\ UNCHANGED <<context, once, outbound, calls, inbound, errs, panic>>

EnterOnce(t) ==
  /\ pc[t] = "close" /\ closeStage = "open"
  /\ closeStage' = "cancel" /\ closer' = t /\ cause' = why[t]
  /\ UNCHANGED <<context, onClosed, outbound, calls, inbound, pc, why, errs, panic>>

\* Mutant: close does not cancel the context.
OnceSkipsCancel ==
  /\ closeStage = "cancel" /\ closeStage' = "conn"
  /\ UNCHANGED <<context, closer, cause, onClosed, outbound, calls, inbound, pc, why,
                 errs, panic>>

OnceCancel ==
  /\ closeStage = "cancel" /\ closeStage' = "conn"
  /\ CancelCtx
  /\ UNCHANGED <<connClosed, sendClosed, recvClosed, closer, cause, onClosed, sendQ, seq,
                 hand, accepted, written, skipped, sends, inbound, why, errs, panic>>

\* Mutant: close leaves the connection open.
OnceKeepsConn ==
  /\ closeStage = "conn" /\ closeStage' = "sendChan"
  /\ UNCHANGED <<context, closer, cause, onClosed, outbound, calls, inbound, pc, why,
                 errs, panic>>

OnceCloseConn ==
  /\ closeStage = "conn" /\ closeStage' = "sendChan"
  /\ connClosed' = TRUE
  /\ UNCHANGED <<ctxDone, sendClosed, recvClosed, closer, cause, onClosed, outbound,
                 calls, inbound, pc, why, errs, panic>>

\* Mutant: sendChan is never closed.
OnceKeepsSendChan ==
  /\ closeStage = "sendChan" /\ closeStage' = "recvChan"
  /\ UNCHANGED <<context, closer, cause, onClosed, outbound, calls, inbound, pc, why,
                 errs, panic>>

\* close(s.sendChan): a goroutine still parked on the channel panics.
OnceCloseSendChan ==
  /\ closeStage = "sendChan" /\ closeStage' = "recvChan"
  /\ sendClosed' = TRUE
  /\ panic' = IF parked = <<>> THEN panic ELSE "parkedSend"
  /\ UNCHANGED <<ctxDone, connClosed, recvClosed, closer, cause, onClosed, outbound,
                 calls, inbound, pc, why, errs>>

OnceCloseRecvChan ==
  /\ closeStage = "recvChan" /\ closeStage' = "handler"
  /\ recvClosed' = TRUE
  /\ UNCHANGED <<ctxDone, connClosed, sendClosed, closer, cause, onClosed, outbound,
                 calls, inbound, pc, why, errs, panic>>

\* handler.OnClosed; OnDisconnected does nothing.
OnceOnClosed ==
  /\ closeStage = "handler" /\ closeStage' = "done"
  /\ onClosed' = onClosed + 1
  /\ UNCHANGED <<context, closer, cause, outbound, calls, inbound, pc, why, errs, panic>>

OnceBody == OnceCancel \/ OnceCloseConn \/ OnceCloseSendChan \/ OnceCloseRecvChan
              \/ OnceOnClosed

\* Mutant: only the goroutine that ran the body is told that it is over.
LeaveOnceIfCloser(t) ==
  /\ pc[t] = "close" /\ closeStage = "done" /\ closer = t
  /\ Goto(t, IF t \in Callers THEN "idle" ELSE "exit")
  /\ UNCHANGED <<context, once, outbound, calls, inbound, why, errs, panic>>

\* close returns to every goroutine that called it once Do is over.  A loop then
\* returns, and its deferred close(nil) finds closeOnce done.  (A Close made by
\* OnMessage returns to the loop, whose next check of the done context returns.)
LeaveOnce(t) ==
  /\ pc[t] = "close" /\ closeStage = "done"
  /\ Goto(t, IF t \in Callers THEN "idle" ELSE "exit")
  /\ UNCHANGED <<context, once, outbound, calls, inbound, why, errs, panic>>

-----------------------------------------------------------------------------
(* recvLoop.                                                               *)

\* Mutant: "break" on a done context leaves the select, not the loop.
RecvCheckBreaksSelect ==
  /\ pc["recvLoop"] = "check"
  /\ Goto("recvLoop", "read")
  /\ UNCHANGED <<context, once, outbound, calls, inbound, why, errs, panic>>

RecvCheck ==
  /\ pc["recvLoop"] = "check"
  /\ \/ ctxDone /\ CloseWith("recvLoop", "nil")
     \/ ~ctxDone /\ Goto("recvLoop", "read") /\ UNCHANGED why
  /\ UNCHANGED <<context, once, outbound, calls, inbound, errs, panic>>

\* A frame already received is returned by ReadMessage even after conn.Close.
RecvFrame ==
  /\ pc["recvLoop"] = "read" /\ readN < Len(peerSent)
  /\ readN' = readN + 1
  /\ \/ /\ peerSent[readN + 1] = "packet"
        /\ Goto("recvLoop", "deliver") /\ UNCHANGED errs
     \/ /\ peerSent[readN + 1] = "undecodable"
        /\ errs' = errs \cup {"decode"} /\ Goto("recvLoop", "check")
     \/ /\ peerSent[readN + 1] = "other"
        /\ Goto("recvLoop", "check") /\ UNCHANGED errs
  /\ UNCHANGED <<context, once, outbound, calls, recvQ, peerSent, peerGone, handled,
                 pulled, why, panic>>

\* Mutant: a read error leaves the loop through the deferred close(nil).
RecvErrorReturns ==
  /\ pc["recvLoop"] = "read"
  /\ connClosed \/ ReadTimeout \/ (peerGone /\ readN = Len(peerSent))
  /\ errs' = errs \cup {"recvRaw"}
  /\ CloseWith("recvLoop", "nil")
  /\ UNCHANGED <<context, once, outbound, calls, inbound, panic>>

\* SetReadDeadline or ReadMessage fails.
RecvError ==
  /\ pc["recvLoop"] = "read"
  /\ connClosed \/ ReadTimeout \/ (peerGone /\ readN = Len(peerSent))
  /\ errs' = errs \cup {"recvRaw"}
  /\ CloseWith("recvLoop", "ErrRecvFailed")
  /\ UNCHANGED <<context, once, outbound, calls, inbound, panic>>

\* Mutant: a full recvChan drops the packet for OnMessage too.
RecvDeliverDropsBoth ==
  /\ pc["recvLoop"] = "deliver"
  /\ \/ /\ ~recvClosed /\ Len(recvQ) < RecvQueueSize
        /\ recvQ' = Append(recvQ, readN)
        /\ Goto("recvLoop", "onMessage")
     \/ /\ Len(recvQ) = RecvQueueSize
        /\ Goto("recvLoop", "check") /\ UNCHANGED recvQ
  /\ UNCHANGED <<context, once, outbound, calls, peerSent, readN, peerGone, handled,
                 pulled, why, errs, panic>>

\* Mutant: OnMessage is the fallback for packets that find recvChan full.
RecvDeliverOrHandle ==
  /\ pc["recvLoop"] = "deliver"
  /\ \/ /\ ~recvClosed /\ Len(recvQ) < RecvQueueSize
        /\ recvQ' = Append(recvQ, readN)
        /\ Goto("recvLoop", "check")
     \/ /\ Len(recvQ) = RecvQueueSize
        /\ Goto("recvLoop", "onMessage") /\ UNCHANGED recvQ
  /\ UNCHANGED <<context, once, outbound, calls, peerSent, readN, peerGone, handled,
                 pulled, why, errs, panic>>

\* The select on ctx.Done, recvChan <- pkt and default (a full queue drops).
RecvDeliver ==
  /\ pc["recvLoop"] = "deliver"
  /\ \/ ctxDone /\ CloseWith("recvLoop", "nil") /\ UNCHANGED <<recvQ, panic>>
     \/ recvClosed /\ panic' = "recvChan" /\ UNCHANGED <<recvQ, pc, why>>
     \/ /\ ~recvClosed /\ Len(recvQ) < RecvQueueSize
        /\ recvQ' = Append(recvQ, readN)
        /\ Goto("recvLoop", "onMessage") /\ UNCHANGED <<why, panic>>
     \/ /\ ~ctxDone /\ ~recvClosed /\ Len(recvQ) = RecvQueueSize
        /\ Goto("recvLoop", "onMessage") /\ UNCHANGED <<recvQ, why, panic>>
  /\ UNCHANGED <<context, once, outbound, calls, peerSent, readN, peerGone, handled,
                 pulled, errs>>

\* handler.OnMessage is entered; inside it the handler may call Send or Close.
RecvHandle ==
  /\ pc["recvLoop"] = "onMessage"
  /\ handled' = Append(handled, readN)
  /\ Goto("recvLoop", "handler")
  /\ UNCHANGED <<context, once, outbound, calls, recvQ, peerSent, readN, peerGone,
                 pulled, why, errs, panic>>

HandlerReturns ==
  /\ pc["recvLoop"] = "handler"
  /\ Goto("recvLoop", "check")
  /\ UNCHANGED <<context, once, outbound, calls, inbound, why, errs, panic>>

RecvLoop == RecvCheck \/ RecvFrame \/ RecvError \/ RecvDeliver \/ RecvHandle
              \/ HandlerReturns

-----------------------------------------------------------------------------
(* sendLoop.                                                               *)

\* Receiving frees a slot, which the runtime gives to the first parked sender.
SendTake ==
  /\ pc["sendLoop"] = "select" /\ sendQ # <<>>
  /\ hand' = Head(sendQ) /\ seq' = seq + 1
  /\ \/ /\ parked = <<>>
        /\ sendQ' = Tail(sendQ)
        /\ Goto("sendLoop", "encode")
        /\ UNCHANGED <<parked, accepted>>
     \/ /\ parked # <<>>
        /\ sendQ' = Append(Tail(sendQ), Head(parked))
        /\ accepted' = Append(accepted, Head(parked))
        /\ parked' = Tail(parked)
        /\ pc' = [pc EXCEPT !["sendLoop"] = "encode",
                            ![Head(parked).by] = AfterSend(Head(parked).by)]
  /\ UNCHANGED <<context, once, written, skipped, calls, inbound, why, errs, panic>>

\* Mutant: sendLoop waits for its channel only.
SendLoopIgnoresCtx ==
  /\ pc["sendLoop"] = "select"
  /\ sendClosed /\ sendQ = <<>>
  /\ CloseWith("sendLoop", "nil")
  /\ UNCHANGED <<context, once, outbound, calls, inbound, errs, panic>>

SendLoopDone ==
  /\ pc["sendLoop"] = "select"
  /\ ctxDone \/ (sendClosed /\ sendQ = <<>>)
  /\ CloseWith("sendLoop", "nil")
  /\ UNCHANGED <<context, once, outbound, calls, inbound, errs, panic>>

EncodeOk ==
  /\ pc["sendLoop"] = "encode"
  /\ Goto("sendLoop", "write")
  /\ UNCHANGED <<context, once, outbound, calls, inbound, why, errs, panic>>

\* Mutant: no continue after an encoding error.
EncodeErrorFallsThrough ==
  /\ pc["sendLoop"] = "encode"
  /\ errs' = errs \cup {"encode"} /\ skipped' = skipped \cup {seq}
  /\ hand' = NoMsg
  /\ Goto("sendLoop", "write")
  /\ UNCHANGED <<context, once, sendQ, parked, seq, accepted, written, calls, inbound,
                 why, panic>>

\* Mutant: an encoding error gives its sequence number back.
EncodeErrorReusesSeq ==
  /\ pc["sendLoop"] = "encode"
  /\ errs' = errs \cup {"encode"} /\ skipped' = skipped \cup {seq}
  /\ hand' = NoMsg /\ seq' = seq - 1
  /\ Goto("sendLoop", "select")
  /\ UNCHANGED <<context, once, sendQ, parked, accepted, written, calls, inbound,
                 why, panic>>

EncodeError ==
  /\ pc["sendLoop"] = "encode"
  /\ errs' = errs \cup {"encode"} /\ skipped' = skipped \cup {seq}
  /\ hand' = NoMsg
  /\ Goto("sendLoop", "select")
  /\ UNCHANGED <<context, once, sendQ, parked, seq, accepted, written, calls, inbound,
                 why, panic>>

\* WriteMessage blocks while the peer does not read: no fairness is assumed here.
WriteOk ==
  /\ pc["sendLoop"] = "write" /\ ~connClosed
  /\ written' = Append(written, [seq |-> seq, msg |-> hand])
  /\ hand' = NoMsg
  /\ Goto("sendLoop", "select")
  /\ UNCHANGED <<context, once, sendQ, parked, seq, accepted, skipped, calls, inbound,
                 why, errs, panic>>

\* Mutant: sendLoop goes on with the next message after a failed write.
WriteErrorContinues ==
  /\ pc["sendLoop"] = "write"
  /\ connClosed \/ peerGone \/ WriteTimeout
  /\ errs' = errs \cup {"send"} /\ hand' = NoMsg
  /\ Goto("sendLoop", "select")
  /\ UNCHANGED <<context, once, sendQ, parked, seq, accepted, written, skipped, calls,
                 inbound, why, panic>>

WriteError ==
  /\ pc["sendLoop"] = "write"
  /\ connClosed \/ peerGone \/ WriteTimeout
  /\ errs' = errs \cup {"send"}
  /\ CloseWith("sendLoop", "writeError")
  /\ UNCHANGED <<context, once, outbound, calls, inbound, panic>>

SendLoop == SendTake \/ SendLoopDone \/ EncodeOk \/ EncodeError \/ WriteError

-----------------------------------------------------------------------------
(* The peer, and a user goroutine reading Recv().                          *)

PeerSend(k) ==
  /\ ~peerGone /\ ~connClosed /\ Len(peerSent) < MaxFrames
  /\ peerSent' = Append(peerSent, k)
  /\ UNCHANGED <<context, once, outbound, calls, recvQ, readN, peerGone, handled, pulled,
                 pc, why, errs, panic>>

PeerGone ==
  /\ ~peerGone /\ peerGone' = TRUE
  /\ UNCHANGED <<context, once, outbound, calls, recvQ, peerSent, readN, handled, pulled,
                 pc, why, errs, panic>>

Pull ==
  /\ recvQ # <<>>
  /\ pulled' = Append(pulled, Head(recvQ)) /\ recvQ' = Tail(recvQ)
  /\ UNCHANGED <<context, once, outbound, calls, peerSent, readN, peerGone, handled,
                 pc, why, errs, panic>>

Next ==
  /\ panic = "none"
  /\ \/ \E t \in Senders : CallSend(t) \/ Send(t) \/ CallClose(t)
     \/ \E t \in Threads : EnterOnce(t) \/ LeaveOnce(t)
     \/ OnceBody \/ ParentCancel
     \/ RecvLoop \/ SendLoop \/ WriteOk
     \/ (\E k \in Kinds : PeerSend(k)) \/ PeerGone \/ Pull

\* The Go scheduler runs every goroutine that can run, and handlers return.
\* Users, the peer, the parent context and a write the peer does not read owe nothing.
Fairness ==
  /\ WF_vars(panic = "none" /\ RecvLoop)
  /\ WF_vars(panic = "none" /\ SendLoop)
  /\ WF_vars(panic = "none" /\ OnceBody)
  /\ \A t \in Senders : WF_vars(panic = "none" /\ Send(t))
  /\ \A t \in Threads : WF_vars(panic = "none" /\ (EnterOnce(t) \/ LeaveOnce(t)))

Spec == Init /\ [][Next]_vars
FairSpec == Spec /\ Fairness

-----------------------------------------------------------------------------
(* Properties.                                                             *)

CallerLabels == {"idle", "sending", "parked", "close"}
RecvLabels == {"check", "read", "deliver", "onMessage", "handler", "sending", "parked",
               "close", "exit"}
SendLabels == {"select", "encode", "write", "close", "exit"}
Stages == {"open", "cancel", "conn", "sendChan", "recvChan", "handler", "done"}
Frame  == [seq : Nat, msg : Message]

ControlOK ==
  /\ ctxDone \in BOOLEAN /\ connClosed \in BOOLEAN
  /\ sendClosed \in BOOLEAN /\ recvClosed \in BOOLEAN
  /\ closeStage \in Stages /\ closer \in Threads \cup {"none"}
  /\ cause \in Causes /\ onClosed \in Nat
  /\ errs \subseteq {"recvRaw", "decode", "encode", "send"}
  /\ panic \in {"none", "sendChan", "parkedSend", "recvChan"}

PcOK ==
  /\ pc \in [Threads -> CallerLabels \cup RecvLabels \cup SendLabels]
  /\ \A t \in Callers : pc[t] \in CallerLabels
  /\ pc["recvLoop"] \in RecvLabels /\ pc["sendLoop"] \in SendLabels
  /\ why \in [Threads -> Causes]

OutboundOK ==
  /\ sendQ \in Seq(Message) /\ parked \in Seq(Message)
  /\ seq \in Nat /\ hand \in Message \cup {NoMsg}
  /\ accepted \in Seq(Message) /\ written \in Seq(Frame) /\ skipped \subseteq Nat
  /\ sends \in [Senders -> 0..MaxSends] /\ failed \subseteq Message

InboundOK ==
  /\ recvQ \in Seq(Nat) /\ peerSent \in Seq(Kinds) /\ readN \in Nat
  /\ peerGone \in BOOLEAN
  /\ handled \in Seq(Nat) /\ pulled \in Seq(Nat)

\* A goroutine inside Send has a message; sendLoop holds one until it is written.
InFlightOK ==
  /\ \A t \in Senders : pc[t] \in {"sending", "parked"} => sends[t] \in 1..MaxSends
  /\ pc["sendLoop"] \in {"encode", "write"} => hand \in Message

\* Every variable holds values of its kind; each goroutine is at a point of its own code.
TypeOK == ControlOK /\ PcOK /\ OutboundOK /\ InboundOK /\ InFlightOK

\* The Seq header of every frame on the wire is the position at which its Send was
\* accepted, and the wire carries frames in that order: nothing is duplicated,
\* reordered or invented between enqueueOutbound, sendLoop and writeRaw.
WrittenInOrder ==
  /\ \A i \in 1..Len(written) :
       /\ written[i].seq \in 1..Len(accepted)
       /\ written[i].msg = accepted[written[i].seq]
  /\ \A i, j \in 1..Len(written) : i < j => written[i].seq < written[j].seq

\* The session implements the abstract outbound stream: the queue, the parked
\* senders, sendLoop and the steps of close are invisible to the peer.
Stream == INSTANCE OutboundStream WITH cut <- connClosed, sealed <- sendClosed
ImplementsStream == Stream!Spec

\* A Send that returned an error has never entered the queue, so it can never reach
\* the peer (a Send returning nil may still be lost by a close): enqueueOutbound.
FailedSendIsNeverQueued == \A i \in 1..Len(accepted) : accepted[i] \notin failed

\* The messages of one goroutine are accepted in the order of its Send calls, also
\* when some of them had to park on the full queue.
SenderOrder ==
  \A i, j \in 1..Len(accepted) :
    (i < j /\ accepted[i].by = accepted[j].by) => accepted[i].n < accepted[j].n

\* While nobody has called close, every message sendLoop took from the queue was
\* written or reported by OnError(StageEncode), except the one in its hands.
NoSilentLoss ==
  (closeStage = "open" /\ panic = "none") =>
    \A k \in 1..seq :
      \/ k \in skipped
      \/ \E i \in 1..Len(written) : written[i].seq = k
      \/ (k = seq /\ pc["sendLoop"] \in {"encode", "write", "close"})

\* OnMessage sees the decodable frames in the order of the wire, each once, and
\* recvLoop skips none of them: a full recvChan drops only the copy for Recv().
HandledInOrder ==
  /\ \A i, j \in 1..Len(handled) : i < j => handled[i] < handled[j]
  /\ \A i \in 1..Len(handled) : peerSent[handled[i]] = "packet"
  /\ \A k \in 1..readN : peerSent[k] = "packet" =>
       \/ \E i \in 1..Len(handled) : handled[i] = k
       \/ (k = readN /\ pc["recvLoop"] \in {"deliver", "onMessage", "close", "exit"})

\* What a reader of Recv() gets is a subsequence of what OnMessage gets; a packet
\* appears on recvChan at most just before its own OnMessage.
RecvIsSubsequence ==
  LET stream == pulled \o recvQ
  IN  /\ \A i, j \in 1..Len(stream) : i < j => stream[i] < stream[j]
      /\ \A i \in 1..Len(stream) :
           \/ \E j \in 1..Len(handled) : handled[j] = stream[i]
           \/ (stream[i] = readN /\ pc["recvLoop"] = "onMessage")

\* close cancels the context before it closes sendChan, so a goroutine blocked in
\* Send on a full queue gets an error and never panics.
BlockedSendNeverPanics == panic # "parkedSend"

\* The process outlives the session: ending one session never makes Serve stop for
\* any reason but a cancelled context or a fatal error (acceptor.go:83).
NoSendOnClosedChannel == panic = "none"

\* OnClosed reports a nil cause only when a Close call or a cancelled context ended
\* the session; a receive or write failure that came first is never hidden by the
\* deferred close(nil) of the loops.
CauseIsFaithful ==
  [][ closeStage = "open" /\ closeStage' # "open" =>
        \/ /\ cause' = "nil"
           /\ \/ ctxDone \/ closer' \in Callers
              \/ (closer' = "recvLoop" /\ "recvRaw" \notin errs)
        \/ (cause' = "ErrRecvFailed" /\ closer' = "recvLoop" /\ "recvRaw" \in errs)
        \/ (cause' = "writeError" /\ closer' = "sendLoop" /\ "send" \in errs) ]_vars

\* Once OnClosed has been called the session is dead for everyone: nothing more is
\* written, queued or put on recvChan, and OnClosed is not called again.
DeadAfterOnClosed ==
  [][ onClosed > 0 => UNCHANGED <<written, accepted, onClosed, pulled \o recvQ>> ]_vars

\* Cancelling the context lets at most one more frame through to OnMessage, however many
\* lie on the wire: recvLoop may be past its check of the context, ReadMessage returns
\* what has arrived even after conn.Close, and the select may pick recvChan or default
\* although the context is done or about to be.  But the OnMessage that runs then, which
\* may come after OnClosed, is the last one.
LastMessage ==
  [](ctxDone /\ pc["recvLoop"] = "handler" => [](pc["recvLoop"] # "onMessage"))

\* A close that has begun always ends both loops.
CloseEndsLoops ==
  closeStage # "open" ~>
    (panic # "none" \/ (pc["recvLoop"] = "exit" /\ pc["sendLoop"] = "exit"))

\* A close that has begun releases every user goroutine blocked in Send or Close.
CloseReleasesCallers ==
  \A c \in Callers :
    (closeStage # "open" /\ pc[c] \in {"sending", "parked", "close"})
      ~> (panic # "none" \/ pc[c] = "idle")

\* Cancelling the parent context closes the session although nobody calls Close:
\* recvLoop may sit in ReadMessage, which ignores the context, so this rests on
\* sendLoop, and on WriteTimeout when the peer has stopped reading.
CancelCloses == ctxDone ~> (panic # "none" \/ closeStage = "done")
=============================================================================
