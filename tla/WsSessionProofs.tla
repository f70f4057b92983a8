---------------------------- MODULE WsSessionProofs ----------------------------
(***************************************************************************)
(* Theorems about WsSession, for any set of user goroutines, any queue     *)
(* sizes and any number of messages and frames.                            *)
(***************************************************************************)
EXTENDS WsSession, SeqLemmas

USE SessionAssumption

-----------------------------------------------------------------------------
(* Type correctness, part by part.                                         *)

LEMMA InitType == Init => TypeOK
<1> SUFFICES ASSUME Init PROVE TypeOK
  OBVIOUS
<1>1. ControlOK
  BY DEF Init, ControlOK, Threads, Senders, Causes, Stages
<1>2. PcOK
  BY DEF Init, PcOK, Threads, Senders, CallerLabels, RecvLabels, SendLabels, Causes
<1>3. OutboundOK
  BY DEF Init, OutboundOK, NoMsg
<1>4. InboundOK
  <2>1. recvQ \in Seq(Nat) /\ peerSent \in Seq(Kinds) /\ handled \in Seq(Nat) /\ pulled \in Seq(Nat)
    BY DEF Init
  <2>2. readN \in Nat /\ peerGone \in BOOLEAN
    BY DEF Init
  <2> QED BY <2>1, <2>2 DEF InboundOK
<1>5. InFlightOK
  BY DEF Init, InFlightOK, Threads, Senders
<1> QED BY <1>1, <1>2, <1>3, <1>4, <1>5 DEF TypeOK

\* The queues of messages, their fronts and ends.
LEMMA QueueTypes ==
  ASSUME TypeOK
  PROVE  /\ sendQ \in Seq(Message) /\ parked \in Seq(Message)
         /\ accepted \in Seq(Message) /\ written \in Seq(Frame)
         /\ recvQ \in Seq(Nat) /\ handled \in Seq(Nat) /\ pulled \in Seq(Nat)
         /\ peerSent \in Seq(Kinds)
         /\ seq \in Nat /\ readN \in Nat
BY DEF TypeOK, OutboundOK, InboundOK

LEMMA Fronts ==
  ASSUME TypeOK
  PROVE  /\ sendQ # <<>> => Head(sendQ) \in Message /\ Tail(sendQ) \in Seq(Message)
         /\ parked # <<>> => /\ Head(parked) \in Message /\ Tail(parked) \in Seq(Message)
                            /\ Head(parked).by \in Senders
         /\ recvQ # <<>> => Head(recvQ) \in Nat /\ Tail(recvQ) \in Seq(Nat)
<1>1. sendQ # <<>> => Head(sendQ) \in Message /\ Tail(sendQ) \in Seq(Message)
  BY QueueTypes, Pop
<1>2. parked # <<>> => Head(parked) \in Message /\ Tail(parked) \in Seq(Message)
  BY QueueTypes, Pop
<1>3. \A m \in Message : m.by \in Senders
  BY DEF Message
<1>4. recvQ # <<>> => Head(recvQ) \in Nat /\ Tail(recvQ) \in Seq(Nat)
  BY QueueTypes, Pop
<1> QED BY <1>1, <1>2, <1>3, <1>4

LEMMA PendingMessage ==
  ASSUME TypeOK, NEW t \in Senders, pc[t] \in {"sending", "parked"}
  PROVE  Pending(t) \in Message
BY DEF Pending, Message, TypeOK, InFlightOK

\* Most actions leave the context, the connection and closeOnce alone.
LEMMA QuietControl ==
  ASSUME TypeOK, UNCHANGED <<context, once>>,
         errs' \subseteq errs \cup {"recvRaw", "decode", "encode", "send"},
         panic' \in {panic, "sendChan", "recvChan"}
  PROVE  ControlOK'
BY DEF TypeOK, ControlOK, context, once

LEMMA ControlStep == TypeOK /\ Next => ControlOK'
<1> SUFFICES ASSUME TypeOK, Next PROVE ControlOK'
  OBVIOUS
<1>1. ASSUME NEW t \in Senders, CallSend(t) \/ Send(t) \/ CallClose(t)
      PROVE  ControlOK'
  <2>1. UNCHANGED <<context, once, errs>> /\ panic' \in {panic, "sendChan"}
    BY <1>1 DEF CallSend, Send, SendCancelled, SendQueued, SendParks, SendPanics, CallClose
  <2> QED BY <2>1, QuietControl
<1>2. ASSUME NEW t \in Threads, EnterOnce(t) \/ LeaveOnce(t)
      PROVE  ControlOK'
  BY <1>2 DEF EnterOnce, LeaveOnce, PcOK, TypeOK, ControlOK, context, once, Stages
<1>3. CASE OnceCancel \/ ParentCancel
  BY <1>3 DEF OnceCancel, ParentCancel, CancelCtx, TypeOK, ControlOK, context, once, Stages
<1>4. CASE OnceCloseConn \/ OnceCloseRecvChan
  BY <1>4 DEF OnceCloseConn, OnceCloseRecvChan, TypeOK, ControlOK, context, once, Stages
<1>5. CASE OnceCloseSendChan
  BY <1>5 DEF OnceCloseSendChan, TypeOK, ControlOK, context, once, Stages
<1>6. CASE OnceOnClosed
  BY <1>6 DEF OnceOnClosed, TypeOK, ControlOK, context, once, Stages
<1>7. CASE RecvLoop
  <2>1. /\ UNCHANGED <<context, once>> /\ panic' \in {panic, "recvChan"}
        /\ errs' \subseteq errs \cup {"recvRaw", "decode"}
    BY <1>7 DEF RecvLoop, RecvCheck, RecvFrame, RecvError, RecvDeliver, RecvHandle,
       HandlerReturns
  <2> QED BY <2>1, QuietControl
<1>8. CASE SendLoop \/ WriteOk
  <2>1. UNCHANGED <<context, once, panic>> /\ errs' \subseteq errs \cup {"encode", "send"}
    BY <1>8 DEF SendLoop, SendTake, SendLoopDone, EncodeOk, EncodeError, WriteError, WriteOk
  <2> QED BY <2>1, QuietControl
<1>9. CASE (\E k \in Kinds : PeerSend(k)) \/ PeerGone \/ Pull
  BY <1>9, QuietControl DEF PeerSend, PeerGone, Pull
<1> QED BY <1>1, <1>2, <1>3, <1>4, <1>5, <1>6, <1>7, <1>8, <1>9 DEF Next, OnceBody

LEMMA PcStep == TypeOK /\ Next => PcOK'
<1> SUFFICES ASSUME TypeOK, Next PROVE PcOK'
  OBVIOUS
<1> USE DEF TypeOK, PcOK, CallerLabels, RecvLabels, SendLabels, Threads, Senders, Causes,
            Goto, CloseWith, AfterSend, MayCall
<1>1. ASSUME NEW t \in Senders, CallSend(t) \/ Send(t) \/ CallClose(t)
      PROVE  PcOK'
  BY <1>1, SMTT(30) DEF CallSend, Send, SendCancelled, SendQueued, SendParks, SendPanics, CallClose
<1>2. ASSUME NEW t \in Threads, EnterOnce(t) \/ LeaveOnce(t)
      PROVE  PcOK'
  BY <1>2 DEF EnterOnce, LeaveOnce
<1>3. CASE OnceCancel \/ ParentCancel
  BY <1>3 DEF OnceCancel, ParentCancel, CancelCtx
<1>4. CASE OnceCloseConn \/ OnceCloseSendChan \/ OnceCloseRecvChan \/ OnceOnClosed
  BY <1>4 DEF OnceCloseConn, OnceCloseSendChan, OnceCloseRecvChan, OnceOnClosed
<1>5. CASE RecvLoop
  BY <1>5 DEF RecvLoop, RecvCheck, RecvFrame, RecvError, RecvDeliver, RecvHandle,
     HandlerReturns
<1>6. CASE SendTake
  <2>1. CASE parked = <<>>
    BY <1>6, <2>1 DEF SendTake
  <2>2. CASE parked # <<>>
    <3>1. PICK t \in Senders :
            pc' = [pc EXCEPT !["sendLoop"] = "encode", ![t] = AfterSend(t)]
      BY <1>6, <2>2, Fronts DEF SendTake
    <3>2. why' = why
      BY <1>6 DEF SendTake
    <3> QED BY <3>1, <3>2
  <2> QED BY <2>1, <2>2
<1>7. CASE SendLoopDone \/ EncodeOk \/ EncodeError \/ WriteError \/ WriteOk
  BY <1>7 DEF SendLoopDone, EncodeOk, EncodeError, WriteError, WriteOk
<1>8. CASE (\E k \in Kinds : PeerSend(k)) \/ PeerGone \/ Pull
  BY <1>8 DEF PeerSend, PeerGone, Pull
<1> QED BY <1>1, <1>2, <1>3, <1>4, <1>5, <1>6, <1>7, <1>8 DEF Next, OnceBody, SendLoop

LEMMA OutboundStep == TypeOK /\ Next => OutboundOK'
<1> SUFFICES ASSUME TypeOK, Next PROVE OutboundOK'
  OBVIOUS
<1> USE DEF OutboundOK, outbound, calls
<1>0. OutboundOK
  BY DEF TypeOK
<1>1. ASSUME NEW t \in Senders, CallSend(t)
      PROVE  OutboundOK'
  BY <1>0, <1>1 DEF CallSend
<1>2. ASSUME NEW t \in Senders, Send(t)
      PROVE  OutboundOK'
  <2>1. pc[t] = "sending" /\ Pending(t) \in Message
    BY <1>2, PendingMessage DEF Send, SendCancelled, SendQueued, SendParks, SendPanics
  <2>2. CASE SendCancelled(t) \/ SendPanics(t)
    BY <1>0, <2>1, <2>2 DEF SendCancelled, SendPanics
  <2>3. /\ Append(sendQ, Pending(t)) \in Seq(Message)
        /\ Append(parked, Pending(t)) \in Seq(Message)
        /\ Append(accepted, Pending(t)) \in Seq(Message)
    BY QueueTypes, <2>1, Push
  <2>4. CASE SendQueued(t) \/ SendParks(t)
    BY <1>0, <2>3, <2>4 DEF SendQueued, SendParks
  <2> QED BY <1>2, <2>2, <2>4 DEF Send
<1>3. ASSUME NEW t \in Senders, CallClose(t)
      PROVE  OutboundOK'
  BY <1>0, <1>3 DEF CallClose
<1>4. ASSUME NEW t \in Threads, EnterOnce(t) \/ LeaveOnce(t)
      PROVE  OutboundOK'
  BY <1>0, <1>4 DEF EnterOnce, LeaveOnce
<1>5. CASE OnceCancel \/ ParentCancel
  <2>1. Range(parked) \subseteq Message /\ <<>> \in Seq(Message)
    BY QueueTypes, Elements, EmptySeq
  <2> QED BY <1>0, <1>5, <2>1 DEF OnceCancel, ParentCancel, CancelCtx
<1>6. CASE OnceCloseConn \/ OnceCloseSendChan \/ OnceCloseRecvChan \/ OnceOnClosed
  BY <1>0, <1>6 DEF OnceCloseConn, OnceCloseSendChan, OnceCloseRecvChan, OnceOnClosed
<1>7. CASE RecvLoop
  BY <1>0, <1>7 DEF RecvLoop, RecvCheck, RecvFrame, RecvError, RecvDeliver, RecvHandle,
     HandlerReturns
<1>8. CASE SendTake
  <2>1. sendQ # <<>> /\ Head(sendQ) \in Message /\ Tail(sendQ) \in Seq(Message)
    BY <1>8, Fronts DEF SendTake
  <2>2. sendQ' \in Seq(Message) /\ parked' \in Seq(Message) /\ accepted' \in Seq(Message)
    <3>1. CASE parked = <<>>
      BY <1>8, <2>1, <3>1, QueueTypes DEF SendTake
    <3>2. CASE parked # <<>>
      <4>1. Head(parked) \in Message /\ Tail(parked) \in Seq(Message)
        BY <3>2, Fronts
      <4>2. /\ Append(Tail(sendQ), Head(parked)) \in Seq(Message)
            /\ Append(accepted, Head(parked)) \in Seq(Message)
        BY QueueTypes, <2>1, <4>1, Push
      <4> QED BY <1>8, <3>2, <4>1, <4>2 DEF SendTake
    <3> QED BY <3>1, <3>2
  <2>3. /\ seq' = seq + 1 /\ hand' = Head(sendQ)
        /\ UNCHANGED <<written, skipped, sends, failed>>
    BY <1>8 DEF SendTake
  <2> QED BY <1>0, <2>1, <2>2, <2>3
<1>9. CASE SendLoopDone \/ EncodeOk \/ EncodeError \/ WriteError
  BY <1>0, <1>9 DEF SendLoopDone, EncodeOk, EncodeError, WriteError
<1>10. CASE WriteOk
  <2>1. hand \in Message
    BY <1>10 DEF WriteOk, TypeOK, InFlightOK
  <2>2. [seq |-> seq, msg |-> hand] \in Frame
    BY <2>1, QueueTypes DEF Frame
  <2>3. Append(written, [seq |-> seq, msg |-> hand]) \in Seq(Frame)
    BY QueueTypes, <2>2, Push
  <2> QED BY <1>0, <1>10, <2>3 DEF WriteOk
<1>11. CASE (\E k \in Kinds : PeerSend(k)) \/ PeerGone \/ Pull
  BY <1>0, <1>11 DEF PeerSend, PeerGone, Pull
<1> QED BY <1>1, <1>2, <1>3, <1>4, <1>5, <1>6, <1>7, <1>8, <1>9, <1>10, <1>11
        DEF Next, OnceBody, SendLoop
LEMMA InboundStep == TypeOK /\ Next => InboundOK'
<1> SUFFICES ASSUME TypeOK, Next PROVE InboundOK'
  OBVIOUS
<1> USE DEF InboundOK, inbound
<1>0. InboundOK
  BY DEF TypeOK
<1>1. ASSUME NEW t \in Senders, CallSend(t) \/ Send(t) \/ CallClose(t)
      PROVE  InboundOK'
  BY <1>0, <1>1 DEF CallSend, Send, SendCancelled, SendQueued, SendParks, SendPanics, CallClose
<1>2. ASSUME NEW t \in Threads, EnterOnce(t) \/ LeaveOnce(t)
      PROVE  InboundOK'
  BY <1>0, <1>2 DEF EnterOnce, LeaveOnce
<1>3. CASE OnceBody \/ ParentCancel
  BY <1>0, <1>3 DEF OnceBody, OnceCancel, OnceCloseConn, OnceCloseSendChan, OnceCloseRecvChan,
     OnceOnClosed, ParentCancel
<1>4. CASE RecvLoop
  <2>1. CASE RecvCheck \/ RecvFrame \/ RecvError \/ HandlerReturns
    BY <1>0, <2>1 DEF RecvCheck, RecvFrame, RecvError, HandlerReturns
  <2>2. Append(recvQ, readN) \in Seq(Nat) /\ Append(handled, readN) \in Seq(Nat)
    BY QueueTypes, Push
  <2>3. CASE RecvDeliver \/ RecvHandle
    BY <1>0, <2>2, <2>3 DEF RecvDeliver, RecvHandle
  <2> QED BY <1>4, <2>1, <2>3 DEF RecvLoop
<1>5. CASE SendLoop \/ WriteOk
  BY <1>0, <1>5 DEF SendLoop, SendTake, SendLoopDone, EncodeOk, EncodeError, WriteError, WriteOk
<1>6. CASE (\E k \in Kinds : PeerSend(k)) \/ PeerGone \/ Pull
  <2>1. ASSUME NEW k \in Kinds, PeerSend(k) PROVE InboundOK'
    <3>1. Append(peerSent, k) \in Seq(Kinds)
      BY QueueTypes, Push
    <3> QED BY <1>0, <2>1, <3>1 DEF PeerSend
  <2>2. CASE PeerGone
    BY <1>0, <2>2 DEF PeerGone
  <2>3. CASE Pull
    <3>1. Head(recvQ) \in Nat /\ Tail(recvQ) \in Seq(Nat)
      BY <2>3, Fronts DEF Pull
    <3>2. Append(pulled, Head(recvQ)) \in Seq(Nat)
      BY QueueTypes, <3>1, Push
    <3> QED BY <1>0, <2>3, <3>1, <3>2 DEF Pull
  <2> QED BY <1>6, <2>1, <2>2, <2>3
<1> QED BY <1>1, <1>2, <1>3, <1>4, <1>5, <1>6 DEF Next

LEMMA InFlightStep == TypeOK /\ Next => InFlightOK'
<1> SUFFICES ASSUME TypeOK, Next PROVE InFlightOK'
  OBVIOUS
<1> USE DEF TypeOK, InFlightOK, PcOK, OutboundOK, Threads, Senders, Goto, CloseWith,
            AfterSend, MayCall, outbound, calls, RecvLabels, SendLabels, CallerLabels
<1>1. ASSUME NEW t \in Senders, CallSend(t) \/ Send(t) \/ CallClose(t)
      PROVE  InFlightOK'
  BY <1>1, SMTT(30) DEF CallSend, Send, SendCancelled, SendQueued, SendParks, SendPanics, CallClose
<1>2. ASSUME NEW t \in Threads, EnterOnce(t) \/ LeaveOnce(t)
      PROVE  InFlightOK'
  BY <1>2 DEF EnterOnce, LeaveOnce
<1>3. CASE OnceCancel \/ ParentCancel
  BY <1>3 DEF OnceCancel, ParentCancel, CancelCtx
<1>4. CASE OnceCloseConn \/ OnceCloseSendChan \/ OnceCloseRecvChan \/ OnceOnClosed
  BY <1>4 DEF OnceCloseConn, OnceCloseSendChan, OnceCloseRecvChan, OnceOnClosed
<1>5. CASE RecvLoop
  BY <1>5 DEF RecvLoop, RecvCheck, RecvFrame, RecvError, RecvDeliver, RecvHandle,
     HandlerReturns
<1>6. CASE SendTake
  <2>1. hand' \in Message
    BY <1>6, Fronts DEF SendTake
  <2>2. CASE parked = <<>>
    BY <1>6, <2>1, <2>2 DEF SendTake
  <2>3. CASE parked # <<>>
    <3>1. Head(parked).by \in Senders
      BY <2>3, Fronts
    <3> QED BY <1>6, <2>1, <2>3, <3>1 DEF SendTake
  <2> QED BY <2>2, <2>3
<1>7. CASE SendLoopDone \/ EncodeOk \/ EncodeError \/ WriteError \/ WriteOk
  BY <1>7 DEF SendLoopDone, EncodeOk, EncodeError, WriteError, WriteOk
<1>8. CASE (\E k \in Kinds : PeerSend(k)) \/ PeerGone \/ Pull
  BY <1>8 DEF PeerSend, PeerGone, Pull
<1> QED BY <1>1, <1>2, <1>3, <1>4, <1>5, <1>6, <1>7, <1>8 DEF Next, OnceBody, SendLoop

LEMMA TypeStutter == TypeOK /\ UNCHANGED vars => TypeOK'
BY DEF TypeOK, ControlOK, PcOK, OutboundOK, InboundOK, InFlightOK, vars, context, once,
   outbound, calls, inbound

\* Every reachable state is well typed, and each goroutine is at a point of its own code.
THEOREM TypeCorrect == Spec => []TypeOK
<1>1. TypeOK /\ Next => TypeOK'
  BY ControlStep, PcStep, OutboundStep, InboundStep, InFlightStep DEF TypeOK
<1> QED BY InitType, <1>1, TypeStutter, PTL DEF Spec
-----------------------------------------------------------------------------
(* The outbound path.  accepted is the stream of messages, of which sendLoop   *)
(* has taken the first seq and sendQ holds the rest.                       *)

Holding == pc["sendLoop"] \in {"encode", "write"}

StreamInv ==
  /\ Len(accepted) = seq + Len(sendQ)
  /\ \A i \in 1..Len(sendQ) : sendQ[i] = accepted[seq + i]

HandInv == Holding => seq >= 1 /\ hand = accepted[seq]

WireInv ==
  /\ \A i \in 1..Len(written) :
       /\ written[i].seq \in 1..seq
       /\ written[i].msg = accepted[written[i].seq]
       /\ Holding => written[i].seq < seq
  /\ \A i, j \in 1..Len(written) : i < j => written[i].seq < written[j].seq

QueueInv == StreamInv /\ HandInv /\ WireInv

LEMMA InitQueue == Init => QueueInv
BY DEF Init, QueueInv, StreamInv, HandInv, WireInv, Holding, Threads, Senders

\* What a step can do to the outbound path.
LEMMA QueueFrame ==
  ASSUME TypeOK, Next
  PROVE  \/ /\ UNCHANGED <<sendQ, seq, hand, accepted, written>>
            /\ Holding' => Holding
         \/ \E t \in Senders : SendQueued(t)
         \/ SendTake \/ EncodeError \/ WriteOk
<1> USE DEF TypeOK, PcOK, Holding, Threads, Senders, Goto, CloseWith, AfterSend, MayCall,
            outbound, CallerLabels
<1>1. ASSUME NEW t \in Senders, CallSend(t) \/ CallClose(t)
      PROVE  /\ UNCHANGED <<sendQ, seq, hand, accepted, written>>
             /\ Holding' => Holding
  BY <1>1 DEF CallSend, CallClose
<1>2. ASSUME NEW t \in Senders, SendCancelled(t) \/ SendParks(t) \/ SendPanics(t)
      PROVE  /\ UNCHANGED <<sendQ, seq, hand, accepted, written>>
             /\ Holding' => Holding
  BY <1>2 DEF SendCancelled, SendParks, SendPanics
<1>3. ASSUME NEW t \in Threads, EnterOnce(t) \/ LeaveOnce(t)
      PROVE  /\ UNCHANGED <<sendQ, seq, hand, accepted, written>>
             /\ Holding' => Holding
  BY <1>3 DEF EnterOnce, LeaveOnce
<1>4. CASE OnceCancel \/ ParentCancel
  BY <1>4 DEF OnceCancel, ParentCancel, CancelCtx, SendLabels
<1>5. CASE OnceCloseConn \/ OnceCloseSendChan \/ OnceCloseRecvChan \/ OnceOnClosed
  BY <1>5 DEF OnceCloseConn, OnceCloseSendChan, OnceCloseRecvChan, OnceOnClosed
<1>6. CASE RecvLoop
  BY <1>6 DEF RecvLoop, RecvCheck, RecvFrame, RecvError, RecvDeliver, RecvHandle,
     HandlerReturns
<1>7. CASE SendLoopDone \/ EncodeOk \/ WriteError
  BY <1>7 DEF SendLoopDone, EncodeOk, WriteError
<1>8. CASE (\E k \in Kinds : PeerSend(k)) \/ PeerGone \/ Pull
  BY <1>8 DEF PeerSend, PeerGone, Pull
<1> QED BY <1>1, <1>2, <1>3, <1>4, <1>5, <1>6, <1>7, <1>8
        DEF Next, OnceBody, SendLoop, Send

LEMMA QueueStep == TypeOK /\ QueueInv /\ [Next]_vars => QueueInv'
<1> SUFFICES ASSUME TypeOK, QueueInv, [Next]_vars PROVE QueueInv'
  OBVIOUS
<1> USE DEF QueueInv
<1>0. /\ seq \in Nat /\ Len(sendQ) \in Nat /\ Len(accepted) \in Nat /\ Len(written) \in Nat
      /\ Len(accepted) >= seq
  BY QueueTypes DEF StreamInv
<1>1. ASSUME UNCHANGED <<sendQ, seq, hand, accepted, written>>, Holding' => Holding
      PROVE  QueueInv'
  BY <1>1 DEF StreamInv, HandInv, WireInv
<1>2. ASSUME NEW t \in Senders, SendQueued(t)
      PROVE  QueueInv'
  <2>1. /\ sendQ' = Append(sendQ, Pending(t)) /\ accepted' = Append(accepted, Pending(t))
        /\ UNCHANGED <<seq, hand, written>> /\ (Holding' => Holding)
        /\ pc[t] = "sending"
    BY <1>2 DEF SendQueued, Holding, Goto, AfterSend, TypeOK, PcOK, SendLabels, Threads,
       Senders
  <2>2. Pending(t) \in Message
    BY <2>1, PendingMessage
  <2>3. /\ Len(sendQ') = Len(sendQ) + 1
        /\ \A i \in 1..Len(sendQ) : sendQ'[i] = sendQ[i]
        /\ sendQ'[Len(sendQ) + 1] = Pending(t)
    BY <2>1, <2>2, QueueTypes, Push
  <2>4. /\ Len(accepted') = Len(accepted) + 1
        /\ \A i \in 1..Len(accepted) : accepted'[i] = accepted[i]
        /\ accepted'[Len(accepted) + 1] = Pending(t)
    BY <2>1, <2>2, QueueTypes, Push
  <2>5. StreamInv'
    BY <1>0, <2>1, <2>3, <2>4 DEF StreamInv
  <2>6. HandInv'
    BY <1>0, <2>1, <2>4 DEF HandInv
  <2>7. WireInv'
    BY <1>0, <2>1, <2>4 DEF WireInv
  <2> QED BY <2>5, <2>6, <2>7
<1>3. CASE SendTake
  <2>1. /\ sendQ # <<>> /\ hand' = Head(sendQ) /\ seq' = seq + 1 /\ written' = written
        /\ \/ sendQ' = Tail(sendQ) /\ accepted' = accepted
           \/ /\ parked # <<>>
              /\ sendQ' = Append(Tail(sendQ), Head(parked))
              /\ accepted' = Append(accepted, Head(parked))
    BY <1>3 DEF SendTake
  <2>2. /\ Len(sendQ) \in Nat \ {0} /\ Head(sendQ) = sendQ[1]
        /\ Tail(sendQ) \in Seq(Message) /\ Len(Tail(sendQ)) = Len(sendQ) - 1
        /\ \A i \in 1..Len(Tail(sendQ)) : Tail(sendQ)[i] = sendQ[i + 1]
    BY <2>1, QueueTypes, Pop
  <2>3a. ASSUME NEW i \in 1..Len(Tail(sendQ))
        PROVE  Tail(sendQ)[i] = accepted[seq + 1 + i] /\ seq + 1 + i \in 1..Len(accepted)
    <3>1. i + 1 \in 1..Len(sendQ) /\ seq + (i + 1) = seq + 1 + i
      BY <1>0, <2>2
    <3>2. sendQ[i + 1] = accepted[seq + (i + 1)]
      BY <3>1 DEF StreamInv
    <3> QED BY <1>0, <2>2, <3>1, <3>2 DEF StreamInv
  <2>3b. sendQ[1] = accepted[seq + 1] /\ seq + 1 \in 1..Len(accepted)
    BY <1>0, <2>2 DEF StreamInv
  <2>3. CASE sendQ' = Tail(sendQ) /\ accepted' = accepted
    <3>1. StreamInv'
      <4>1. Len(accepted') = seq' + Len(sendQ')
        <5>1. Len(accepted) = seq + Len(sendQ)
          BY DEF StreamInv
        <5>2. Len(sendQ') = Len(sendQ) - 1 /\ Len(accepted') = Len(accepted)
          BY <2>2, <2>3
        <5>3. seq' = seq + 1
          BY <2>1
        <5> QED BY <1>0, <5>1, <5>2, <5>3
      <4>2. ASSUME NEW i \in 1..Len(sendQ') PROVE sendQ'[i] = accepted'[seq' + i]
        BY <2>1, <2>3, <2>3a
      <4> QED BY <4>1, <4>2 DEF StreamInv
    <3>2. HandInv'
      BY <1>0, <2>1, <2>2, <2>3, <2>3b DEF HandInv
    <3>3. WireInv'
      BY <1>0, <2>1, <2>3, SMTT(30) DEF WireInv
    <3> QED BY <3>1, <3>2, <3>3
  <2>4. CASE /\ parked # <<>>
             /\ sendQ' = Append(Tail(sendQ), Head(parked))
             /\ accepted' = Append(accepted, Head(parked))
    <3>1. Head(parked) \in Message
      BY <2>4, Fronts
    <3>2. /\ Len(accepted') = Len(accepted) + 1
          /\ \A i \in 1..Len(accepted) : accepted'[i] = accepted[i]
          /\ accepted'[Len(accepted) + 1] = Head(parked)
      BY <2>4, <3>1, QueueTypes, Push
    <3>3. /\ Len(sendQ') = Len(sendQ)
          /\ \A i \in 1..Len(Tail(sendQ)) : sendQ'[i] = Tail(sendQ)[i]
          /\ sendQ'[Len(sendQ)] = Head(parked)
      BY <2>2, <2>4, <3>1, Push
    <3>4. Len(accepted') = seq' + Len(sendQ') /\ seq' + Len(sendQ) = Len(accepted) + 1
      BY <1>0, <2>1, <3>2, <3>3 DEF StreamInv
    <3>5. ASSUME NEW i \in 1..Len(sendQ') PROVE sendQ'[i] = accepted'[seq' + i]
      <4>1. CASE i = Len(sendQ)
        BY <3>2, <3>3, <3>4, <4>1
      <4>2. CASE i # Len(sendQ)
        <5>1. i \in 1..Len(Tail(sendQ))
          <6>1. i \in 1..Len(sendQ) /\ Len(Tail(sendQ)) = Len(sendQ) - 1
            BY <2>2, <3>3
          <6> QED BY <1>0, <4>2, <6>1
        <5>2. Tail(sendQ)[i] = accepted[seq + 1 + i] /\ seq + 1 + i \in 1..Len(accepted)
          BY <2>3a, <5>1
        <5> QED BY <2>1, <3>2, <3>3, <5>1, <5>2
      <4> QED BY <4>1, <4>2
    <3>6. StreamInv'
      BY <3>4, <3>5 DEF StreamInv
    <3>7. HandInv'
      BY <1>0, <2>1, <2>2, <2>3b, <3>2 DEF HandInv
    <3>8. WireInv'
      BY <1>0, <2>1, <3>2 DEF WireInv
    <3> QED BY <3>6, <3>7, <3>8
  <2> QED BY <2>1, <2>3, <2>4
<1>4. CASE EncodeError
  <2>1. UNCHANGED <<sendQ, seq, accepted, written>> /\ ~Holding'
    BY <1>4 DEF EncodeError, Holding, Goto, TypeOK, PcOK, Threads
  <2> QED BY <2>1 DEF StreamInv, HandInv, WireInv
<1>5. CASE WriteOk
  <2>1. /\ Holding /\ ~Holding' /\ UNCHANGED <<sendQ, seq, accepted>>
        /\ written' = Append(written, [seq |-> seq, msg |-> hand])
    BY <1>5 DEF WriteOk, Holding, Goto, TypeOK, PcOK, Threads
  <2>2. hand \in Message
    BY <1>5 DEF WriteOk, TypeOK, InFlightOK
  <2>3. [seq |-> seq, msg |-> hand] \in Frame
    BY <2>2, QueueTypes DEF Frame
  <2>4. /\ Len(written') = Len(written) + 1
        /\ \A i \in 1..Len(written) : written'[i] = written[i]
        /\ written'[Len(written) + 1] = [seq |-> seq, msg |-> hand]
    BY <2>1, <2>3, QueueTypes, Push
  <2>5. StreamInv' /\ HandInv'
    BY <2>1 DEF StreamInv, HandInv
  <2>6. WireInv'
    BY <1>0, <2>1, <2>4 DEF HandInv, WireInv
  <2> QED BY <2>5, <2>6
<1>6. CASE UNCHANGED vars
  BY <1>1, <1>6 DEF vars, outbound, Holding
<1> QED BY <1>1, <1>2, <1>3, <1>4, <1>5, <1>6, QueueFrame

\* Frames on the wire carry, in increasing order, the positions at which their Sends
\* were accepted: no duplicate, no reordering, no invented message.
THEOREM WireOrder == Spec => []WrittenInOrder
<1>1. TypeOK /\ QueueInv => WrittenInOrder
  <2> SUFFICES ASSUME TypeOK, QueueInv PROVE WrittenInOrder
    OBVIOUS
  <2>1. seq \in Nat /\ Len(sendQ) \in Nat
    BY QueueTypes
  <2> QED BY <2>1 DEF QueueInv, StreamInv, WireInv, WrittenInOrder
<1> QED BY InitQueue, QueueStep, TypeCorrect, <1>1, PTL DEF Spec
-----------------------------------------------------------------------------
(* Calls of Send.  A message is settled once its Send has returned; only settled *)
(* messages are in accepted or failed, and none is in both.                *)

Settled(m) ==
  /\ m.n <= sends[m.by]
  /\ pc[m.by] \in {"sending", "parked"} => m.n < sends[m.by]

ParkedInv ==
  /\ \A i \in 1..Len(parked) :
       pc[parked[i].by] = "parked" /\ parked[i].n = sends[parked[i].by]
  /\ \A i, j \in 1..Len(parked) : i # j => parked[i].by # parked[j].by

SettledInv ==
  /\ \A i \in 1..Len(accepted) : Settled(accepted[i])
  /\ \A m \in failed : Settled(m)

CallInv == ParkedInv /\ SettledInv /\ FailedSendIsNeverQueued /\ SenderOrder

LEMMA InitCalls == Init => CallInv
BY DEF Init, CallInv, ParkedInv, SettledInv, FailedSendIsNeverQueued, SenderOrder

\* What a step can do to the calls in progress.
LEMMA CallFrame ==
  ASSUME TypeOK, Next
  PROVE  \/ /\ UNCHANGED <<parked, failed, accepted>>
            /\ \A t \in Senders :
                 pc[t] = "parked" => pc'[t] = "parked" /\ sends'[t] = sends[t]
         \/ \E t \in Senders : SendCancelled(t) \/ SendQueued(t) \/ SendParks(t)
         \/ SendTake
         \/ CancelCtx /\ UNCHANGED <<sends, accepted>>
<1> DEFINE Quiet ==
      /\ UNCHANGED <<parked, failed, accepted>>
      /\ \A t \in Senders : pc[t] = "parked" => pc'[t] = "parked" /\ sends'[t] = sends[t]
<1> USE DEF TypeOK, PcOK, Threads, Senders, Goto, CloseWith, AfterSend, MayCall,
            outbound, calls
<1>1. ASSUME NEW t \in Senders, CallSend(t) PROVE Quiet
  BY <1>1 DEF CallSend, OutboundOK
<1>2. ASSUME NEW t \in Senders, CallClose(t) \/ SendPanics(t) PROVE Quiet
  BY <1>2 DEF CallClose, SendPanics
<1>3. ASSUME NEW t \in Threads, EnterOnce(t) \/ LeaveOnce(t) PROVE Quiet
  BY <1>3 DEF EnterOnce, LeaveOnce
<1>4. CASE OnceCancel \/ ParentCancel
  BY <1>4 DEF OnceCancel, ParentCancel
<1>5. CASE OnceCloseConn \/ OnceCloseSendChan \/ OnceCloseRecvChan \/ OnceOnClosed
  <2>1. Quiet
    BY <1>5 DEF OnceCloseConn, OnceCloseSendChan, OnceCloseRecvChan, OnceOnClosed
  <2> QED BY <2>1
<1>6. CASE RecvLoop
  <2>1. Quiet
    BY <1>6 DEF RecvLoop, RecvCheck, RecvFrame, RecvError, RecvDeliver, RecvHandle,
       HandlerReturns
  <2> QED BY <2>1
<1>7. CASE SendLoopDone \/ EncodeOk \/ EncodeError \/ WriteError \/ WriteOk
  <2>1. Quiet
    BY <1>7 DEF SendLoopDone, EncodeOk, EncodeError, WriteError, WriteOk
  <2> QED BY <2>1
<1>8. CASE (\E k \in Kinds : PeerSend(k)) \/ PeerGone \/ Pull
  <2>1. Quiet
    BY <1>8 DEF PeerSend, PeerGone, Pull
  <2> QED BY <2>1
<1> QED BY <1>1, <1>2, <1>3, <1>4, <1>5, <1>6, <1>7, <1>8
        DEF Next, OnceBody, SendLoop, Send

\* A settled message stays settled: sends only grows, and a goroutine enters a new
\* Send with a new number.
LEMMA SettledStep ==
  ASSUME TypeOK, Next, NEW m \in Message, Settled(m)
  PROVE  Settled(m)'
<1>1. m.by \in Senders /\ m.n \in Nat /\ sends[m.by] \in Nat
  BY DEF Message, TypeOK, OutboundOK
<1> USE DEF TypeOK, PcOK, Settled, Threads, Senders, Goto, CloseWith, AfterSend, MayCall,
            outbound, calls
<1>2. ASSUME NEW t \in Senders, CallSend(t) PROVE Settled(m)'
  BY <1>1, <1>2 DEF CallSend, OutboundOK
<1>3. ASSUME NEW t \in Senders, CallClose(t) \/ SendPanics(t) \/ SendCancelled(t)
      PROVE  Settled(m)'
  BY <1>1, <1>3 DEF CallClose, SendPanics, SendCancelled
<1>4. ASSUME NEW t \in Senders, SendQueued(t) \/ SendParks(t) PROVE Settled(m)'
  BY <1>1, <1>4 DEF SendQueued, SendParks
<1>5. ASSUME NEW t \in Threads, EnterOnce(t) \/ LeaveOnce(t) PROVE Settled(m)'
  BY <1>1, <1>5 DEF EnterOnce, LeaveOnce
<1>6. CASE OnceCancel \/ ParentCancel
  BY <1>1, <1>6 DEF OnceCancel, ParentCancel, CancelCtx
<1>7. CASE OnceCloseConn \/ OnceCloseSendChan \/ OnceCloseRecvChan \/ OnceOnClosed
  BY <1>1, <1>7 DEF OnceCloseConn, OnceCloseSendChan, OnceCloseRecvChan, OnceOnClosed
<1>8. CASE RecvLoop
  BY <1>1, <1>8 DEF RecvLoop, RecvCheck, RecvFrame, RecvError, RecvDeliver, RecvHandle,
     HandlerReturns
<1>9. CASE SendTake
  <2>1. UNCHANGED sends
    BY <1>9 DEF SendTake
  <2>2. CASE parked = <<>>
    BY <1>1, <1>9, <2>1, <2>2 DEF SendTake
  <2>3. CASE parked # <<>>
    <3>1. PICK t \in Senders :
            pc' = [pc EXCEPT !["sendLoop"] = "encode", ![t] = AfterSend(t)]
      BY <1>9, <2>3, Fronts DEF SendTake
    <3> QED BY <1>1, <2>1, <3>1
  <2> QED BY <2>2, <2>3
<1>10. CASE SendLoopDone \/ EncodeOk \/ EncodeError \/ WriteError \/ WriteOk
  BY <1>1, <1>10 DEF SendLoopDone, EncodeOk, EncodeError, WriteError, WriteOk
<1>11. CASE (\E k \in Kinds : PeerSend(k)) \/ PeerGone \/ Pull
  BY <1>1, <1>11 DEF PeerSend, PeerGone, Pull
<1> QED BY <1>2, <1>3, <1>4, <1>5, <1>6, <1>7, <1>8, <1>9, <1>10, <1>11
        DEF Next, OnceBody, SendLoop, Send

\* Accepting the current message of a goroutine that is inside Send.
LEMMA AcceptOne ==
  ASSUME TypeOK, CallInv, NEW t \in Senders, pc[t] \in {"sending", "parked"},
         accepted' = Append(accepted, Pending(t)), failed' = failed
  PROVE  FailedSendIsNeverQueued' /\ SenderOrder'
<1> DEFINE m == Pending(t)
<1>1. m \in Message /\ m.by = t /\ m.n = sends[t] /\ sends[t] \in Nat
  BY PendingMessage DEF Pending, TypeOK, OutboundOK
<1>2. /\ Len(accepted) \in Nat /\ Len(accepted') = Len(accepted) + 1
      /\ \A i \in 1..Len(accepted) : accepted'[i] = accepted[i]
      /\ accepted'[Len(accepted) + 1] = m
  BY <1>1, QueueTypes, Push
<1>3. \A i \in 1..Len(accepted) : accepted[i].by = t => accepted[i].n < m.n
  BY <1>1 DEF CallInv, SettledInv, Settled
<1>4. m \notin failed
  BY <1>1 DEF CallInv, SettledInv, Settled
<1>5. FailedSendIsNeverQueued'
  BY <1>2, <1>4 DEF CallInv, FailedSendIsNeverQueued
<1>6. ASSUME NEW i \in 1..Len(accepted'), NEW j \in 1..Len(accepted'),
             i < j, accepted'[i].by = accepted'[j].by
      PROVE  accepted'[i].n < accepted'[j].n
  <2>1. i \in 1..Len(accepted)
    BY <1>2, <1>6
  <2>2. CASE j \in 1..Len(accepted)
    BY <1>2, <1>6, <2>1, <2>2 DEF CallInv, SenderOrder
  <2>3. CASE j = Len(accepted) + 1
    BY <1>1, <1>2, <1>3, <1>6, <2>1, <2>3
  <2> QED BY <1>2, <2>2, <2>3
<1> QED BY <1>5, <1>6 DEF SenderOrder

LEMMA SettledAppend ==
  ASSUME TypeOK, CallInv, NEW t \in Senders, pc[t] \in {"sending", "parked"},
         accepted' = Append(accepted, Pending(t)), failed' = failed, sends' = sends,
         pc'[t] \notin {"sending", "parked"},
         \A m \in Message : Settled(m) => Settled(m)'
  PROVE  SettledInv'
<1>1. /\ Pending(t) \in Message /\ Pending(t).by = t /\ Pending(t).n = sends[t]
      /\ sends[t] \in Nat
  BY PendingMessage DEF Pending, TypeOK, OutboundOK
<1>2. /\ Len(accepted) \in Nat /\ Len(accepted') = Len(accepted) + 1
      /\ \A i \in 1..Len(accepted) : accepted'[i] = accepted[i] /\ accepted[i] \in Message
      /\ accepted'[Len(accepted) + 1] = Pending(t)
  BY <1>1, QueueTypes, Push
<1>3. ASSUME NEW i \in 1..Len(accepted') PROVE Settled(accepted[i])'
  <2>1. CASE i \in 1..Len(accepted)
    BY <1>2, <2>1 DEF CallInv, SettledInv, Settled
  <2>2. CASE i = Len(accepted) + 1
    BY <1>1, <1>2, <2>2 DEF Settled
  <2> QED BY <1>2, <2>1, <2>2
<1>4. ASSUME NEW m \in failed' PROVE Settled(m)'
  BY DEF CallInv, SettledInv, TypeOK, OutboundOK
<1> QED BY <1>3, <1>4 DEF SettledInv

LEMMA CallStep == TypeOK /\ CallInv /\ [Next]_vars => CallInv'
<1> SUFFICES ASSUME TypeOK, CallInv, Next PROVE CallInv'
  <2>1. CASE UNCHANGED vars
    BY <2>1 DEF CallInv, ParkedInv, SettledInv, Settled, FailedSendIsNeverQueued,
       SenderOrder, vars, outbound, calls
  <2> QED BY <2>1
<1> USE DEF CallInv
<1>1. \A m \in Message : Settled(m) => Settled(m)'
  BY SettledStep
<1>2. /\ \A i \in 1..Len(accepted) : accepted[i] \in Message
      /\ \A i \in 1..Len(parked) : parked[i] \in Message
      /\ failed \subseteq Message
  BY QueueTypes DEF TypeOK, OutboundOK
<1>3. \A m \in Message : m.by \in Senders
  BY DEF Message
<1>4. CASE /\ UNCHANGED <<parked, failed, accepted>>
           /\ \A t \in Senders :
                pc[t] = "parked" => pc'[t] = "parked" /\ sends'[t] = sends[t]
  <2>1. ParkedInv'
    BY <1>2, <1>3, <1>4 DEF ParkedInv
  <2>2. SettledInv'
    <3>1. ASSUME NEW m \in failed' PROVE Settled(m)'
      BY <1>1, <1>2, <1>4, <3>1 DEF SettledInv
    <3>2. ASSUME NEW i \in 1..Len(accepted') PROVE Settled(accepted[i])'
      BY <1>1, <1>2, <1>4, <3>2 DEF SettledInv, Settled
    <3> QED BY <3>1, <3>2 DEF SettledInv
  <2>3. FailedSendIsNeverQueued' /\ SenderOrder'
    BY <1>4 DEF FailedSendIsNeverQueued, SenderOrder
  <2> QED BY <2>1, <2>2, <2>3
<1>5. ASSUME NEW t \in Senders, SendCancelled(t)
      PROVE  CallInv'
  <2>1. /\ pc[t] = "sending" /\ pc' = [pc EXCEPT ![t] = AfterSend(t)]
        /\ failed' = failed \cup {Pending(t)} /\ UNCHANGED <<parked, accepted, sends>>
    BY <1>5 DEF SendCancelled, Goto, outbound
  <2>2. /\ pc'[t] \notin {"sending", "parked"} /\ t \in Threads
        /\ \A u \in Senders : u # t => pc'[u] = pc[u]
    BY <2>1 DEF AfterSend, TypeOK, PcOK, Threads
  <2>3. /\ Pending(t) \in Message /\ Pending(t).by = t /\ Pending(t).n = sends[t]
        /\ sends[t] \in Nat
    BY <2>1, PendingMessage DEF Pending, TypeOK, OutboundOK
  <2>4. ParkedInv'
    BY <1>2, <1>3, <2>1, <2>2 DEF ParkedInv
  <2>5. Settled(Pending(t))'
    BY <2>1, <2>2, <2>3 DEF Settled, Pending
  <2>6. SettledInv'
    <3>1. ASSUME NEW m \in failed' PROVE Settled(m)'
      BY <1>1, <1>2, <2>1, <2>2, <2>3, <3>1 DEF SettledInv, Settled
    <3>2. ASSUME NEW i \in 1..Len(accepted') PROVE Settled(accepted[i])'
      BY <1>1, <1>2, <2>1, <3>2 DEF SettledInv, Settled
    <3> QED BY <3>1, <3>2 DEF SettledInv
  <2>7. \A i \in 1..Len(accepted) : accepted[i] # Pending(t)
    BY <1>2, <2>1, <2>3 DEF SettledInv, Settled
  <2>8. FailedSendIsNeverQueued' /\ SenderOrder'
    BY <2>1, <2>7 DEF FailedSendIsNeverQueued, SenderOrder
  <2> QED BY <2>4, <2>6, <2>8
<1>6. ASSUME NEW t \in Senders, SendQueued(t)
      PROVE  CallInv'
  <2>1. /\ pc[t] = "sending" /\ pc' = [pc EXCEPT ![t] = AfterSend(t)]
        /\ accepted' = Append(accepted, Pending(t)) /\ UNCHANGED <<parked, failed, sends>>
    BY <1>6 DEF SendQueued, Goto, calls
  <2>2. /\ pc'[t] \notin {"sending", "parked"} /\ t \in Threads
        /\ \A u \in Senders : u # t => pc'[u] = pc[u]
    BY <2>1 DEF AfterSend, TypeOK, PcOK, Threads
  <2>3. ParkedInv'
    BY <1>2, <1>3, <2>1, <2>2 DEF ParkedInv
  <2>4. SettledInv'
    BY <1>1, <2>1, <2>2, SettledAppend
  <2>5. FailedSendIsNeverQueued' /\ SenderOrder'
    BY <2>1, AcceptOne
  <2> QED BY <2>3, <2>4, <2>5
<1>7. ASSUME NEW t \in Senders, SendParks(t)
      PROVE  CallInv'
  <2>1. /\ pc[t] = "sending" /\ pc' = [pc EXCEPT ![t] = "parked"]
        /\ parked' = Append(parked, Pending(t)) /\ UNCHANGED <<accepted, failed, sends>>
    BY <1>7 DEF SendParks, Goto, calls
  <2>2. pc'[t] = "parked" /\ \A u \in Senders : u # t => pc'[u] = pc[u]
    BY <2>1 DEF TypeOK, PcOK, Threads
  <2>3. /\ Pending(t) \in Message /\ Pending(t).by = t /\ Pending(t).n = sends[t]
    BY <2>1, PendingMessage DEF Pending
  <2>4. /\ Len(parked) \in Nat /\ Len(parked') = Len(parked) + 1
        /\ \A i \in 1..Len(parked) : parked'[i] = parked[i]
        /\ parked'[Len(parked) + 1] = Pending(t)
    BY <2>1, <2>3, QueueTypes, Push
  <2>5. ParkedInv'
    BY <1>2, <1>3, <2>1, <2>2, <2>3, <2>4 DEF ParkedInv
  <2>6. SettledInv'
    <3>1. ASSUME NEW m \in failed' PROVE Settled(m)'
      BY <1>1, <1>2, <2>1, <3>1 DEF SettledInv
    <3>2. ASSUME NEW i \in 1..Len(accepted') PROVE Settled(accepted[i])'
      BY <1>1, <1>2, <2>1, <3>2 DEF SettledInv, Settled
    <3> QED BY <3>1, <3>2 DEF SettledInv
  <2>7. FailedSendIsNeverQueued' /\ SenderOrder'
    BY <2>1 DEF FailedSendIsNeverQueued, SenderOrder
  <2> QED BY <2>5, <2>6, <2>7
<1>8. CASE SendTake
  <2>1. CASE parked = <<>>
    <3>1. /\ UNCHANGED <<parked, failed, accepted, sends>>
          /\ pc' = [pc EXCEPT !["sendLoop"] = "encode"]
      BY <1>8, <2>1 DEF SendTake, Goto, calls
    <3>2. \A t \in Senders : pc[t] = "parked" => pc'[t] = "parked" /\ sends'[t] = sends[t]
      BY <3>1 DEF TypeOK, PcOK, Threads, Senders
    <3> QED BY <1>4, <3>1, <3>2
  <2>2. CASE parked # <<>>
    <3> DEFINE t == Head(parked).by
    <3>1. /\ Head(parked) \in Message /\ t \in Senders /\ t \in Threads
          /\ Head(parked) = parked[1] /\ Tail(parked) \in Seq(Message)
          /\ Len(parked) \in Nat \ {0} /\ Len(Tail(parked)) = Len(parked) - 1
          /\ \A i \in 1..Len(Tail(parked)) : Tail(parked)[i] = parked[i + 1]
      BY <2>2, Fronts, QueueTypes, Pop DEF Threads
    <3>2. pc[t] = "parked" /\ Head(parked).n = sends[t]
      BY <3>1 DEF ParkedInv
    <3>3. Head(parked) = Pending(t)
      BY <3>1, <3>2 DEF Pending, Message
    <3>4. /\ accepted' = Append(accepted, Pending(t)) /\ parked' = Tail(parked)
          /\ pc' = [pc EXCEPT !["sendLoop"] = "encode", ![t] = AfterSend(t)]
          /\ UNCHANGED <<failed, sends>>
      BY <1>8, <2>2, <3>3 DEF SendTake, calls
    <3>5. /\ pc'[t] \notin {"sending", "parked"}
          /\ \A u \in Senders : u # t => pc'[u] = pc[u]
      BY <3>1, <3>4 DEF AfterSend, TypeOK, PcOK, Threads, Senders
    <3>6. ParkedInv'
      <4>1. ASSUME NEW i \in 1..Len(parked')
            PROVE  /\ parked'[i] = parked[i + 1] /\ i + 1 \in 1..Len(parked)
                   /\ i + 1 # 1 /\ parked'[i] \in Message
        BY <1>2, <3>1, <3>4
      <4>2. ASSUME NEW i \in 1..Len(parked')
            PROVE  parked'[i].by \in Senders /\ parked'[i].by # t
        BY <1>3, <3>1, <4>1 DEF ParkedInv
      <4>3. ASSUME NEW i \in 1..Len(parked')
            PROVE  pc'[parked'[i].by] = "parked" /\ parked'[i].n = sends'[parked'[i].by]
        <5>1. /\ pc[parked[i + 1].by] = "parked"
              /\ parked[i + 1].n = sends[parked[i + 1].by]
          BY <4>1 DEF ParkedInv
        <5>2. parked'[i].by = parked[i + 1].by /\ parked'[i].n = parked[i + 1].n
          BY <4>1
        <5>3. pc'[parked'[i].by] = pc[parked'[i].by]
          BY <3>5, <4>2
        <5>4. sends' = sends
          BY <3>4
        <5> QED BY <5>1, <5>2, <5>3, <5>4
      <4>4. ASSUME NEW i \in 1..Len(parked'), NEW j \in 1..Len(parked'), i # j
            PROVE  parked'[i].by # parked'[j].by
        <5>1. parked'[i] = parked[i + 1] /\ parked'[j] = parked[j + 1]
          BY <4>1
        <5>2. i + 1 \in 1..Len(parked) /\ j + 1 \in 1..Len(parked) /\ i + 1 # j + 1
          BY <4>1, <4>4
        <5> QED BY <5>1, <5>2 DEF ParkedInv
      <4> HIDE DEF t
      <4> QED BY <4>3, <4>4 DEF ParkedInv
    <3>7. SettledInv'
      BY <1>1, <3>1, <3>2, <3>4, <3>5, SettledAppend
    <3>8. FailedSendIsNeverQueued' /\ SenderOrder'
      BY <3>1, <3>2, <3>4, AcceptOne
    <3> QED BY <3>6, <3>7, <3>8
  <2> QED BY <2>1, <2>2
<1>9. CASE CancelCtx /\ UNCHANGED <<sends, accepted>>
  <2>1. /\ parked' = <<>> /\ failed' = failed \cup Range(parked)
        /\ \A t \in Senders : pc'[t] = IF pc[t] = "parked" THEN AfterSend(t) ELSE pc[t]
    BY <1>9 DEF CancelCtx, Threads
  <2>2. ASSUME NEW m \in Range(parked)
        PROVE  /\ m \in Message /\ m.by \in Senders /\ pc[m.by] = "parked"
               /\ m.n = sends[m.by] /\ sends[m.by] \in Nat
    <3>1. PICK i \in 1..Len(parked) : parked[i] = m
      BY QueueTypes, Elements
    <3>2. m \in Message /\ m.by \in Senders
      BY <1>2, <1>3, <3>1
    <3>3. pc[m.by] = "parked" /\ m.n = sends[m.by]
      BY <3>1 DEF ParkedInv
    <3>4. sends[m.by] \in Nat
      BY <3>2 DEF TypeOK, OutboundOK
    <3> QED BY <3>2, <3>3, <3>4
  <2>3. ParkedInv'
    BY <2>1 DEF ParkedInv
  <2>4. SettledInv'
    <3>1. ASSUME NEW m \in Range(parked) PROVE Settled(m)'
      BY <1>9, <2>1, <2>2 DEF Settled, AfterSend
    <3>2. ASSUME NEW m \in failed' PROVE Settled(m)'
      BY <1>1, <1>2, <2>1, <3>1, <3>2 DEF SettledInv
    <3>3. ASSUME NEW i \in 1..Len(accepted') PROVE Settled(accepted[i])'
      BY <1>1, <1>2, <1>9, <3>3 DEF SettledInv, Settled
    <3> QED BY <3>2, <3>3 DEF SettledInv
  <2>5. \A i \in 1..Len(accepted) : accepted[i] \notin Range(parked)
    BY <1>2, <2>2 DEF SettledInv, Settled
  <2>6. FailedSendIsNeverQueued' /\ SenderOrder'
    BY <1>9, <2>1, <2>5 DEF FailedSendIsNeverQueued, SenderOrder
  <2> QED BY <2>3, <2>4, <2>6
<1> QED BY <1>4, <1>5, <1>6, <1>7, <1>8, <1>9, CallFrame

\* An error from Send means that the message was never queued.
THEOREM FailedIsNeverQueued == Spec => []FailedSendIsNeverQueued
<1>1. CallInv => FailedSendIsNeverQueued
  BY DEF CallInv
<1> QED BY InitCalls, CallStep, TypeCorrect, <1>1, PTL DEF Spec

\* The messages of one goroutine are accepted in the order of its calls.
THEOREM PerSenderOrder == Spec => []SenderOrder
<1>1. CallInv => SenderOrder
  BY DEF CallInv
<1> QED BY InitCalls, CallStep, TypeCorrect, <1>1, PTL DEF Spec

-----------------------------------------------------------------------------
(* closeOnce: the order of the steps of close.                             *)

OnceInv ==
  /\ closeStage \in {"conn", "sendChan", "recvChan", "handler", "done"} => ctxDone
  /\ connClosed <=> closeStage \in {"sendChan", "recvChan", "handler", "done"}
  /\ sendClosed <=> closeStage \in {"recvChan", "handler", "done"}
  /\ recvClosed <=> closeStage \in {"handler", "done"}
  /\ onClosed = IF closeStage = "done" THEN 1 ELSE 0
  /\ ctxDone => parked = <<>>
  /\ panic # "parkedSend"

LEMMA InitOnce == Init => OnceInv
BY DEF Init, OnceInv

LEMMA OnceStep == TypeOK /\ OnceInv /\ [Next]_vars => OnceInv'
<1> SUFFICES ASSUME TypeOK, OnceInv, [Next]_vars PROVE OnceInv'
  OBVIOUS
<1> USE DEF OnceInv, context, once, outbound
<1>1. ASSUME NEW t \in Senders, CallSend(t) \/ CallClose(t) \/ SendCancelled(t)
      PROVE  OnceInv'
  BY <1>1 DEF CallSend, CallClose, SendCancelled
<1>2. ASSUME NEW t \in Senders, SendQueued(t) \/ SendParks(t) \/ SendPanics(t)
      PROVE  OnceInv'
  BY <1>2 DEF SendQueued, SendParks, SendPanics
<1>3. ASSUME NEW t \in Threads, EnterOnce(t) \/ LeaveOnce(t)
      PROVE  OnceInv'
  BY <1>3 DEF EnterOnce, LeaveOnce
<1>4. CASE OnceCancel \/ ParentCancel
  BY <1>4 DEF OnceCancel, ParentCancel, CancelCtx
<1>5. CASE OnceCloseConn
  BY <1>5 DEF OnceCloseConn
<1>6. CASE OnceCloseSendChan
  BY <1>6 DEF OnceCloseSendChan
<1>7. CASE OnceCloseRecvChan
  BY <1>7 DEF OnceCloseRecvChan
<1>8. CASE OnceOnClosed
  BY <1>8 DEF OnceOnClosed
<1>9. CASE RecvLoop
  BY <1>9 DEF RecvLoop, RecvCheck, RecvFrame, RecvError, RecvDeliver, RecvHandle,
     HandlerReturns
<1>10. CASE SendTake
  BY <1>10 DEF SendTake
<1>11. CASE SendLoopDone \/ EncodeOk \/ EncodeError \/ WriteError \/ WriteOk
  BY <1>11 DEF SendLoopDone, EncodeOk, EncodeError, WriteError, WriteOk
<1>12. CASE (\E k \in Kinds : PeerSend(k)) \/ PeerGone \/ Pull
  BY <1>12 DEF PeerSend, PeerGone, Pull
<1>13. CASE UNCHANGED vars
  BY <1>13 DEF vars
<1> QED BY <1>1, <1>2, <1>3, <1>4, <1>5, <1>6, <1>7, <1>8, <1>9, <1>10, <1>11, <1>12,
           <1>13 DEF Next, OnceBody, SendLoop, Send

\* A goroutine blocked in Send when the session is closed never panics.
THEOREM BlockedSendIsSafe == Spec => []BlockedSendNeverPanics
<1>1. OnceInv => BlockedSendNeverPanics
  BY DEF OnceInv, BlockedSendNeverPanics
<1> QED BY InitOnce, OnceStep, TypeCorrect, <1>1, PTL DEF Spec

LEMMA DeadStep ==
  ASSUME TypeOK, OnceInv, Next, onClosed > 0
  PROVE  UNCHANGED <<written, accepted, onClosed, pulled \o recvQ>>
<1>1. /\ closeStage = "done" /\ ctxDone /\ connClosed /\ sendClosed /\ recvClosed
      /\ parked = <<>>
  BY DEF OnceInv
<1> USE <1>1 DEF once, outbound, inbound
<1>2. ASSUME NEW t \in Senders, CallSend(t) \/ CallClose(t) \/ Send(t)
      PROVE  UNCHANGED <<written, accepted, onClosed, pulled, recvQ>>
  BY <1>2 DEF CallSend, CallClose, Send, SendCancelled, SendQueued, SendParks, SendPanics
<1>3. ASSUME NEW t \in Threads, EnterOnce(t) \/ LeaveOnce(t)
      PROVE  UNCHANGED <<written, accepted, onClosed, pulled, recvQ>>
  BY <1>3 DEF EnterOnce, LeaveOnce
<1>4. CASE OnceBody \/ ParentCancel
  BY <1>4 DEF OnceBody, OnceCancel, OnceCloseConn, OnceCloseSendChan, OnceCloseRecvChan,
     OnceOnClosed, ParentCancel
<1>5. CASE RecvLoop
  BY <1>5 DEF RecvLoop, RecvCheck, RecvFrame, RecvError, RecvDeliver, RecvHandle,
     HandlerReturns
<1>6. CASE SendLoop \/ WriteOk
  BY <1>6 DEF SendLoop, SendTake, SendLoopDone, EncodeOk, EncodeError, WriteError, WriteOk
<1>7. CASE (\E k \in Kinds : PeerSend(k)) \/ PeerGone
  BY <1>7 DEF PeerSend, PeerGone
<1>8. CASE Pull
  <2>1. pulled' \o recvQ' = pulled \o recvQ
    BY <1>8, QueueTypes, MoveFront DEF Pull
  <2> QED BY <1>8, <2>1 DEF Pull
<1> QED BY <1>2, <1>3, <1>4, <1>5, <1>6, <1>7, <1>8 DEF Next

\* After OnClosed nothing is written, queued or delivered, and OnClosed is not repeated.
THEOREM ClosedIsFinal == Spec => DeadAfterOnClosed
<1>1. TypeOK /\ OnceInv /\ [Next]_vars =>
        [onClosed > 0 => UNCHANGED <<written, accepted, onClosed, pulled \o recvQ>>]_vars
  BY DeadStep
<1>2. Spec => []OnceInv
  BY InitOnce, OnceStep, TypeCorrect, PTL DEF Spec
<1> QED BY <1>1, <1>2, TypeCorrect, PTL DEF Spec, DeadAfterOnClosed

-----------------------------------------------------------------------------
(* sendLoop loses nothing before the session is closed.                    *)

Recorded(k) == k \in skipped \/ \E i \in 1..Len(written) : written[i].seq = k
SendBusy == pc["sendLoop"] \in {"encode", "write", "close"}

\* What a step can do to the record of the messages taken from the queue.
LEMMA LossFrame ==
  ASSUME TypeOK, Next, closeStage' = "open"
  PROVE  \/ /\ UNCHANGED <<seq, skipped, written>>
            /\ SendBusy => SendBusy'
         \/ SendTake \/ EncodeError \/ WriteOk
<1> USE DEF TypeOK, PcOK, SendBusy, Threads, Senders, Goto, CloseWith, AfterSend, MayCall,
            outbound, CallerLabels
<1> DEFINE Quiet == UNCHANGED <<seq, skipped, written>> /\ (SendBusy => SendBusy')
<1>1. ASSUME NEW t \in Senders, CallSend(t) \/ CallClose(t) PROVE Quiet
  BY <1>1 DEF CallSend, CallClose
<1>2. ASSUME NEW t \in Senders, Send(t) PROVE Quiet
  BY <1>2 DEF Send, SendCancelled, SendQueued, SendParks, SendPanics
<1>3. ASSUME NEW t \in Threads, EnterOnce(t) \/ LeaveOnce(t) PROVE Quiet
  BY <1>3 DEF EnterOnce, LeaveOnce, once
<1>4. CASE OnceCancel \/ ParentCancel
  BY <1>4 DEF OnceCancel, ParentCancel, CancelCtx, SendLabels
<1>5. CASE OnceCloseConn \/ OnceCloseSendChan \/ OnceCloseRecvChan \/ OnceOnClosed
  BY <1>5 DEF OnceCloseConn, OnceCloseSendChan, OnceCloseRecvChan, OnceOnClosed
<1>6. CASE RecvLoop
  BY <1>6 DEF RecvLoop, RecvCheck, RecvFrame, RecvError, RecvDeliver, RecvHandle,
     HandlerReturns
<1>7. CASE SendLoopDone \/ EncodeOk \/ WriteError
  BY <1>7 DEF SendLoopDone, EncodeOk, WriteError
<1>8. CASE (\E k \in Kinds : PeerSend(k)) \/ PeerGone \/ Pull
  BY <1>8 DEF PeerSend, PeerGone, Pull
<1> QED BY <1>1, <1>2, <1>3, <1>4, <1>5, <1>6, <1>7, <1>8
        DEF Next, OnceBody, SendLoop

\* closeOnce never starts anew.
LEMMA StageOpen == TypeOK /\ [Next]_vars /\ closeStage' = "open" => closeStage = "open"
<1> SUFFICES ASSUME Next, closeStage' = "open" PROVE closeStage = "open"
  BY DEF vars, once
<1> USE DEF once
<1>1. ASSUME NEW t \in Senders, CallSend(t) \/ Send(t) \/ CallClose(t) PROVE UNCHANGED closeStage
  BY <1>1 DEF CallSend, Send, SendCancelled, SendQueued, SendParks, SendPanics, CallClose
<1>2. CASE RecvLoop \/ SendLoop \/ WriteOk
  BY <1>2 DEF RecvLoop, RecvCheck, RecvFrame, RecvError, RecvDeliver, RecvHandle, HandlerReturns,
     SendLoop, SendTake, SendLoopDone, EncodeOk, EncodeError, WriteError, WriteOk
<1>3. CASE OnceBody \/ ParentCancel \/ \E t \in Threads : EnterOnce(t) \/ LeaveOnce(t)
  BY <1>3 DEF OnceBody, OnceCancel, OnceCloseConn, OnceCloseSendChan, OnceCloseRecvChan,
     OnceOnClosed, ParentCancel, EnterOnce, LeaveOnce
<1>4. CASE (\E k \in Kinds : PeerSend(k)) \/ PeerGone \/ Pull
  BY <1>4 DEF PeerSend, PeerGone, Pull
<1> QED BY <1>1, <1>2, <1>3, <1>4 DEF Next

LEMMA LossStep == TypeOK /\ NoSilentLoss /\ [Next]_vars => NoSilentLoss'
<1> SUFFICES ASSUME TypeOK, NoSilentLoss, [Next]_vars, closeStage' = "open", panic' = "none",
                    NEW k \in 1..seq'
             PROVE  \/ Recorded(k)'
                    \/ k = seq' /\ SendBusy'
  BY DEF NoSilentLoss, Recorded, SendBusy
<1>0. seq \in Nat /\ written \in Seq(Frame) /\ Len(written) \in Nat
  BY QueueTypes
<1>1. \A j \in 1..seq : Recorded(j) \/ (j = seq /\ SendBusy)
  <2>1. CASE Next
    BY <2>1, StageOpen DEF NoSilentLoss, Next, Recorded, SendBusy
  <2>2. CASE UNCHANGED vars
    BY <2>2, StageOpen DEF NoSilentLoss, vars, Recorded, SendBusy
  <2> QED BY <2>1, <2>2
<1>2. CASE UNCHANGED <<seq, skipped, written>> /\ (SendBusy => SendBusy')
  BY <1>1, <1>2 DEF Recorded
<1>3. CASE SendTake
  <2>1. seq' = seq + 1 /\ UNCHANGED <<skipped, written>> /\ ~SendBusy
    BY <1>3 DEF SendTake, SendBusy
  <2>2. pc'["sendLoop"] = "encode"
    <3>1. CASE parked = <<>>
      BY <1>3, <3>1 DEF SendTake, Goto, TypeOK, PcOK, Threads
    <3>2. CASE parked # <<>>
      <4>1. Head(parked).by \in Senders
        BY <3>2, Fronts
      <4> QED BY <1>3, <3>2, <4>1 DEF SendTake, TypeOK, PcOK, Threads, Senders
    <3> QED BY <3>1, <3>2
  <2> QED BY <1>0, <1>1, <2>1, <2>2 DEF Recorded, SendBusy
<1>4. CASE EncodeError
  BY <1>1, <1>4 DEF EncodeError, Recorded
<1>5. CASE WriteOk
  <2>1. hand \in Message
    BY <1>5 DEF WriteOk, TypeOK, InFlightOK
  <2>2. [seq |-> seq, msg |-> hand] \in Frame
    BY <2>1, <1>0 DEF Frame
  <2>3. /\ Len(written') = Len(written) + 1
        /\ \A i \in 1..Len(written) : written'[i] = written[i]
        /\ written'[Len(written) + 1].seq = seq
        /\ UNCHANGED <<seq, skipped>>
    BY <1>0, <1>5, <2>2, Push DEF WriteOk
  <2> QED BY <1>0, <1>1, <2>3 DEF Recorded
<1> QED BY <1>2, <1>3, <1>4, <1>5, LossFrame DEF vars, outbound, SendBusy

\* While the session is open, a message that sendLoop took from the queue is on the wire,
\* reported by OnError, or in sendLoop's hands.
THEOREM NothingLostSilently == Spec => []NoSilentLoss
<1>1. Init => NoSilentLoss
  BY DEF Init, NoSilentLoss
<1> QED BY <1>1, LossStep, TypeCorrect, PTL DEF Spec

-----------------------------------------------------------------------------
(* The inbound path: recvLoop has read readN frames, in the order of the wire. *)

Delivered == pulled \o recvQ          \* what Recv() has given and will give
InHand == pc["recvLoop"] \in {"deliver", "onMessage"}
PastFrame == pc["recvLoop"] \in {"deliver", "onMessage", "close", "exit"}
Seen(k) == \E i \in 1..Len(handled) : handled[i] = k

FrameInv ==
  /\ readN <= Len(peerSent)
  /\ InHand => readN >= 1 /\ peerSent[readN] = "packet"

HandledInv ==
  /\ \A i \in 1..Len(handled) :
       /\ handled[i] \in 1..readN /\ peerSent[handled[i]] = "packet"
       /\ InHand => handled[i] < readN
  /\ \A i, j \in 1..Len(handled) : i < j => handled[i] < handled[j]
  /\ \A k \in 1..readN : peerSent[k] = "packet" => Seen(k) \/ (k = readN /\ PastFrame)

DeliveredInv ==
  /\ \A i, j \in 1..Len(Delivered) : i < j => Delivered[i] < Delivered[j]
  /\ \A i \in 1..Len(Delivered) :
       Seen(Delivered[i]) \/ (Delivered[i] = readN /\ pc["recvLoop"] = "onMessage")

ReceiveInv == FrameInv /\ HandledInv /\ DeliveredInv

LEMMA InitReceive == Init => ReceiveInv
BY DEF Init, ReceiveInv, FrameInv, HandledInv, DeliveredInv, Delivered, InHand, Threads, Senders

\* What a step can do to the inbound path.
LEMMA ReceiveFrame ==
  ASSUME TypeOK, CallInv, Next
  PROVE  \/ /\ UNCHANGED <<recvQ, pulled, readN, handled, peerSent>>
            /\ (InHand' => InHand) /\ (PastFrame => PastFrame')
            /\ pc["recvLoop"] = "onMessage" => pc'["recvLoop"] = "onMessage"
         \/ RecvFrame \/ RecvDeliver \/ RecvHandle
         \/ Pull \/ \E k \in Kinds : PeerSend(k)
<1> USE DEF TypeOK, PcOK, InHand, PastFrame, Threads, Senders, Goto, CloseWith, AfterSend, MayCall,
            inbound
<1> DEFINE Quiet ==
      /\ UNCHANGED <<recvQ, pulled, readN, handled, peerSent>>
      /\ (InHand' => InHand) /\ (PastFrame => PastFrame')
      /\ pc["recvLoop"] = "onMessage" => pc'["recvLoop"] = "onMessage"
<1>1. ASSUME NEW t \in Senders, CallSend(t) \/ CallClose(t) PROVE Quiet
  BY <1>1 DEF CallSend, CallClose
<1>2. ASSUME NEW t \in Senders, Send(t) PROVE Quiet
  BY <1>2 DEF Send, SendCancelled, SendQueued, SendParks, SendPanics
<1>3. ASSUME NEW t \in Threads, EnterOnce(t) PROVE Quiet
  BY <1>3 DEF EnterOnce
<1>10. ASSUME NEW t \in Threads, LeaveOnce(t) PROVE Quiet
  <2>1. pc'["recvLoop"] = pc["recvLoop"] \/ (pc["recvLoop"] = "close" /\ pc'["recvLoop"] = "exit")
    BY <1>10 DEF LeaveOnce
  <2> QED BY <1>10, <2>1 DEF LeaveOnce
<1>4. CASE OnceCancel \/ ParentCancel
  BY <1>4 DEF OnceCancel, ParentCancel, CancelCtx
<1>5. CASE OnceCloseConn \/ OnceCloseSendChan \/ OnceCloseRecvChan \/ OnceOnClosed
  BY <1>5 DEF OnceCloseConn, OnceCloseSendChan, OnceCloseRecvChan, OnceOnClosed
<1>6. CASE RecvCheck \/ RecvError \/ HandlerReturns
  BY <1>6 DEF RecvCheck, RecvError, HandlerReturns
<1>7. CASE SendTake
  <2>1. UNCHANGED inbound
    BY <1>7 DEF SendTake
  <2>2. CASE parked = <<>>
    BY <1>7, <2>1, <2>2 DEF SendTake
  <2>3. CASE parked # <<>>
    <3>1. PICK t \in Senders :
            pc[t] = "parked" /\ pc' = [pc EXCEPT !["sendLoop"] = "encode", ![t] = AfterSend(t)]
      <4>1. Head(parked).by \in Senders /\ Head(parked) = parked[1] /\ 1 \in 1..Len(parked)
        BY <2>3, Fronts, QueueTypes, Pop
      <4> QED BY <1>7, <2>3, <4>1 DEF SendTake, CallInv, ParkedInv
    <3>2. \/ pc'["recvLoop"] = pc["recvLoop"]
          \/ t = "recvLoop" /\ pc'["recvLoop"] = "check"
      BY <3>1
    <3>3. t = "recvLoop" => pc["recvLoop"] = "parked"
      BY <3>1
    <3> QED BY <2>1, <3>2, <3>3
  <2> QED BY <2>2, <2>3
<1>8. CASE SendLoopDone \/ EncodeOk \/ EncodeError \/ WriteError \/ WriteOk
  BY <1>8 DEF SendLoopDone, EncodeOk, EncodeError, WriteError, WriteOk
<1>9. CASE PeerGone
  BY <1>9 DEF PeerGone
<1> QED BY <1>1, <1>2, <1>3, <1>4, <1>5, <1>6, <1>7, <1>8, <1>9, <1>10
        DEF Next, OnceBody, SendLoop, RecvLoop

LEMMA ReceiveStep == TypeOK /\ CallInv /\ ReceiveInv /\ [Next]_vars => ReceiveInv'
<1> SUFFICES ASSUME TypeOK, CallInv, ReceiveInv, [Next]_vars PROVE ReceiveInv'
  OBVIOUS
<1> USE DEF ReceiveInv, inbound, Threads, Senders
<1>0. /\ readN \in Nat /\ Len(peerSent) \in Nat /\ Len(handled) \in Nat
      /\ pulled \in Seq(Nat) /\ recvQ \in Seq(Nat) /\ handled \in Seq(Nat)
      /\ Delivered \in Seq(Nat) /\ Len(Delivered) \in Nat
      /\ \A i \in 1..Len(handled) : handled[i] \in Nat
      /\ \A i \in 1..Len(Delivered) : Delivered[i] \in Nat
  <2>1. Delivered \in Seq(Nat)
    BY QueueTypes, ConcatProperties DEF Delivered
  <2>2. \A s \in Seq(Nat) : Len(s) \in Nat /\ \A i \in 1..Len(s) : s[i] \in Nat
    OBVIOUS
  <2>3. /\ readN \in Nat /\ peerSent \in Seq(Kinds) /\ handled \in Seq(Nat)
        /\ pulled \in Seq(Nat) /\ recvQ \in Seq(Nat)
    BY QueueTypes
  <2>4. Len(peerSent) \in Nat
    BY <2>3
  <2> QED BY <2>1, <2>2, <2>3, <2>4
<1>a. \A k : Seen(k) => k \in 1..readN
  BY <1>0 DEF HandledInv, Seen
<1>1. CASE /\ UNCHANGED <<recvQ, pulled, readN, handled, peerSent>>
           /\ (InHand' => InHand) /\ (PastFrame => PastFrame')
           /\ pc["recvLoop"] = "onMessage" => pc'["recvLoop"] = "onMessage"
  BY <1>1 DEF FrameInv, HandledInv, DeliveredInv, Delivered, Seen
<1>2. CASE RecvFrame
  <2>1. /\ pc["recvLoop"] = "read" /\ readN' = readN + 1 /\ readN + 1 <= Len(peerSent)
        /\ UNCHANGED <<recvQ, pulled, handled, peerSent>>
        /\ \/ peerSent[readN + 1] = "packet" /\ pc'["recvLoop"] = "deliver"
           \/ peerSent[readN + 1] # "packet" /\ pc'["recvLoop"] = "check"
    BY <1>0, <1>2 DEF RecvFrame, Goto, TypeOK, PcOK, Threads
  <2>2. ~InHand /\ ~PastFrame
    BY <2>1 DEF InHand, PastFrame
  <2>3. FrameInv'
    BY <1>0, <2>1 DEF FrameInv, InHand
  <2>4. HandledInv'
    <3>1. \A k : Seen(k) => Seen(k)'
      BY <2>1 DEF Seen
    <3>2. \A i \in 1..Len(handled) : handled[i] \in 1..readN /\ peerSent[handled[i]] = "packet"
      BY DEF HandledInv
    <3>3. \A k \in 1..readN : peerSent[k] = "packet" => Seen(k)'
      BY <2>2, <3>1 DEF HandledInv
    <3>4. peerSent[readN + 1] = "packet" => PastFrame'
      BY <2>1 DEF PastFrame
    <3>5. \A k \in 1..readN' : peerSent'[k] = "packet" => Seen(k)' \/ (k = readN' /\ PastFrame')
      BY <1>0, <2>1, <3>3, <3>4
    <3>6. \A i \in 1..Len(handled') : /\ handled'[i] \in 1..readN' /\ peerSent'[handled'[i]] = "packet"
                                     /\ handled'[i] < readN'
      <4>1. ASSUME NEW i \in 1..Len(handled)
            PROVE  handled[i] \in 1..(readN + 1) /\ handled[i] < readN + 1
        BY <1>0, <3>2
      <4> QED BY <2>1, <3>2, <4>1
    <3> QED BY <2>1, <3>5, <3>6 DEF HandledInv
  <2>5. DeliveredInv'
    BY <2>1 DEF DeliveredInv, Delivered, Seen
  <2> QED BY <2>3, <2>4, <2>5
<1>3. CASE RecvDeliver
  <2>1. /\ pc["recvLoop"] = "deliver" /\ InHand /\ PastFrame /\ PastFrame'
        /\ UNCHANGED <<pulled, readN, handled, peerSent>>
    BY <1>3 DEF RecvDeliver, Goto, CloseWith, TypeOK, PcOK, Threads, InHand, PastFrame
  <2>2. FrameInv' /\ HandledInv'
    BY <2>1 DEF FrameInv, HandledInv, Seen
  <2>3. CASE UNCHANGED recvQ
    <3>1. Delivered' = Delivered
      BY <2>1, <2>3 DEF Delivered
    <3>2. \A i \in 1..Len(Delivered) : Seen(Delivered[i])
      BY <2>1 DEF DeliveredInv
    <3>3. DeliveredInv'
      BY <2>1, <3>1, <3>2 DEF DeliveredInv, Seen
    <3> QED BY <2>2, <3>3
  <2>4. CASE recvQ' = Append(recvQ, readN) /\ pc'["recvLoop"] = "onMessage"
    <3>1. Delivered' = Append(Delivered, readN)
      <4>1. pulled' \o recvQ' = pulled \o Append(recvQ, readN)
        BY <2>1, <2>4
      <4>2. pulled \in Seq(Nat) /\ recvQ \in Seq(Nat) /\ readN \in Nat
        BY <1>0
      <4>3. pulled \o Append(recvQ, readN) = Append(pulled \o recvQ, readN)
        BY ONLY <4>2, AppendToStream
      <4> QED BY <4>1, <4>3 DEF Delivered
    <3>2. /\ Len(Delivered') = Len(Delivered) + 1
          /\ \A i \in 1..Len(Delivered) : Delivered'[i] = Delivered[i]
          /\ Delivered'[Len(Delivered) + 1] = readN
      BY <1>0, <3>1, Push
    <3>3. \A i \in 1..Len(Delivered) : Seen(Delivered[i]) /\ Delivered[i] < readN
      BY <1>0, <2>1 DEF DeliveredInv, HandledInv, Seen
    <3>4. \A k : Seen(k) => Seen(k)'
      BY <2>1 DEF Seen
    <3>5. ASSUME NEW i \in 1..Len(Delivered') PROVE Seen(Delivered[i])' \/ Delivered'[i] = readN
      <4>1. CASE i \in 1..Len(Delivered)
        BY <3>2, <3>3, <3>4, <4>1
      <4>2. CASE i = Len(Delivered) + 1
        BY <3>2, <4>2
      <4> QED BY <1>0, <3>2, <4>1, <4>2
    <3>6. ASSUME NEW i \in 1..Len(Delivered'), NEW j \in 1..Len(Delivered'), i < j
          PROVE  Delivered'[i] < Delivered'[j]
      <4>1. i \in 1..Len(Delivered)
        BY <1>0, <3>2, <3>6
      <4>2. CASE j \in 1..Len(Delivered)
        BY <3>2, <3>6, <4>1, <4>2 DEF DeliveredInv
      <4>3. CASE j = Len(Delivered) + 1
        BY <3>2, <3>3, <4>1, <4>3
      <4> QED BY <1>0, <3>2, <4>2, <4>3
    <3>7. DeliveredInv'
      BY <2>1, <2>4, <3>5, <3>6 DEF DeliveredInv
    <3> QED BY <2>2, <3>7
  <2>5. \/ UNCHANGED recvQ
        \/ recvQ' = Append(recvQ, readN) /\ pc'["recvLoop"] = "onMessage"
    BY <1>3 DEF RecvDeliver, Goto, TypeOK, PcOK, Threads
  <2> QED BY <2>2, <2>3, <2>4, <2>5
<1>4. CASE RecvHandle
  <2>1. /\ pc["recvLoop"] = "onMessage" /\ InHand /\ ~InHand' /\ pc'["recvLoop"] = "handler"
        /\ UNCHANGED <<pulled, recvQ, readN, peerSent>>
        /\ handled' = Append(handled, readN)
    BY <1>4 DEF RecvHandle, Goto, TypeOK, PcOK, Threads, InHand
  <2>2. /\ Len(handled') = Len(handled) + 1
        /\ \A i \in 1..Len(handled) : handled'[i] = handled[i]
        /\ handled'[Len(handled) + 1] = readN
    BY <1>0, <2>1, Push
  <2>3. (\A k : Seen(k) => Seen(k)') /\ Seen(readN)'
    <3>1. \A i \in 1..Len(handled) : i \in 1..Len(handled')
      BY <1>0, <2>2
    <3>2. Len(handled) + 1 \in 1..Len(handled')
      BY <1>0, <2>2
    <3>3. Seen(readN)'
      BY <2>1, <2>2, <3>2 DEF Seen
    <3>4. ASSUME NEW k, Seen(k) PROVE Seen(k)'
      BY <2>2, <3>1, <3>4 DEF Seen
    <3> QED BY <3>3, <3>4
  <2>4. FrameInv'
    BY <2>1 DEF FrameInv
  <2>5. HandledInv'
    <3>1. readN \in 1..readN /\ peerSent[readN] = "packet"
      BY <1>0, <2>1 DEF FrameInv
    <3>2. \A i \in 1..Len(handled') : handled'[i] \in 1..readN /\ peerSent[handled'[i]] = "packet"
      <4>1. ASSUME NEW i \in 1..Len(handled')
            PROVE  handled'[i] \in 1..readN /\ peerSent[handled'[i]] = "packet"
        <5>1. CASE i \in 1..Len(handled)
          BY <2>2, <5>1 DEF HandledInv
        <5>2. CASE i = Len(handled) + 1
          BY <2>2, <3>1, <5>2
        <5> QED BY <1>0, <2>2, <5>1, <5>2
      <4> QED BY <4>1
    <3>3. \A i, j \in 1..Len(handled') : i < j => handled'[i] < handled'[j]
      <4>1. \A i \in 1..Len(handled) : handled[i] < readN
        BY <2>1 DEF HandledInv
      <4>2. ASSUME NEW i \in 1..Len(handled'), NEW j \in 1..Len(handled'), i < j
            PROVE  handled'[i] < handled'[j]
        <5>1. i \in 1..Len(handled)
          BY <1>0, <2>2, <4>2
        <5>2. CASE j \in 1..Len(handled)
          BY <2>2, <4>2, <5>1, <5>2 DEF HandledInv
        <5>3. CASE j = Len(handled) + 1
          BY <2>2, <4>1, <5>1, <5>3
        <5> QED BY <1>0, <2>2, <5>2, <5>3
      <4> QED BY <4>2
    <3>4. \A k \in 1..readN : peerSent[k] = "packet" => Seen(k)'
      BY <2>1, <2>3 DEF HandledInv, PastFrame
    <3> QED BY <2>1, <3>2, <3>3, <3>4 DEF HandledInv
  <2>6. DeliveredInv'
    BY <2>1, <2>3 DEF DeliveredInv, Delivered
  <2> QED BY <2>4, <2>5, <2>6
<1>5. CASE Pull
  <2>1. Delivered' = Delivered
    BY <1>0, <1>5, MoveFront DEF Pull, Delivered
  <2>2. UNCHANGED <<readN, handled, peerSent, pc>>
    BY <1>5 DEF Pull
  <2> QED BY <2>1, <2>2 DEF FrameInv, HandledInv, DeliveredInv, Seen, InHand, PastFrame
<1>6. ASSUME NEW kind \in Kinds, PeerSend(kind) PROVE ReceiveInv'
  <2>1. UNCHANGED <<recvQ, pulled, readN, handled, pc>> /\ peerSent' = Append(peerSent, kind)
    BY <1>6 DEF PeerSend
  <2>2. /\ Len(peerSent') = Len(peerSent) + 1
        /\ \A i \in 1..Len(peerSent) : peerSent'[i] = peerSent[i]
    BY <2>1, QueueTypes, Push
  <2>3. \A k \in 1..readN : peerSent'[k] = peerSent[k]
    BY <1>0, <2>2 DEF FrameInv
  <2>4. FrameInv'
    BY <1>0, <2>1, <2>2, <2>3 DEF FrameInv, InHand
  <2>5. HandledInv'
    BY <1>0, <2>1, <2>3 DEF HandledInv, Seen, InHand, PastFrame
  <2>6. DeliveredInv'
    BY <2>1 DEF DeliveredInv, Delivered, Seen
  <2> QED BY <2>4, <2>5, <2>6
<1>7. CASE UNCHANGED vars
  BY <1>1, <1>7 DEF vars, inbound, InHand, PastFrame
<1> QED BY <1>1, <1>2, <1>3, <1>4, <1>5, <1>6, <1>7, ReceiveFrame

LEMMA ReceiveCorrect == Spec => []ReceiveInv
BY InitReceive, ReceiveStep, InitCalls, CallStep, TypeCorrect, PTL DEF Spec

\* OnMessage sees the decodable frames of the peer, each once and in the order of the
\* wire; recvLoop skips none of them.
THEOREM MessagesInOrder == Spec => []HandledInOrder
<1>1. ReceiveInv => HandledInOrder
  BY DEF ReceiveInv, HandledInv, HandledInOrder, Seen, PastFrame
<1> QED BY ReceiveCorrect, <1>1, PTL

\* Recv() gives a subsequence of what OnMessage is given.
THEOREM RecvFollowsHandler == Spec => []RecvIsSubsequence
<1>1. ReceiveInv => RecvIsSubsequence
  BY DEF ReceiveInv, DeliveredInv, Delivered, Seen, RecvIsSubsequence
<1> QED BY ReceiveCorrect, <1>1, PTL

-----------------------------------------------------------------------------
(* Why the session ended.  A goroutine waits at closeOnce with a reason that *)
(* is true for as long as nobody has entered it.                           *)

Reason(t) ==
  \/ why[t] = "nil" /\ (ctxDone \/ t \in Callers \/ (t = "recvLoop" /\ "recvRaw" \notin errs))
  \/ why[t] = "ErrRecvFailed" /\ t = "recvLoop" /\ "recvRaw" \in errs
  \/ why[t] = "writeError" /\ t = "sendLoop" /\ "send" \in errs

CauseInv ==
  /\ "recvRaw" \in errs => pc["recvLoop"] \in {"close", "exit"}
  /\ closeStage = "open" => \A t \in Threads : pc[t] = "close" => Reason(t)

LEMMA InitCause == Init => CauseInv
BY DEF Init, CauseInv, Threads, Senders

LEMMA CauseStep == TypeOK /\ CallInv /\ OnceInv /\ CauseInv /\ [Next]_vars => CauseInv'
<1> SUFFICES ASSUME TypeOK, CallInv, OnceInv, CauseInv, [Next]_vars PROVE CauseInv'
  OBVIOUS
<1> USE DEF context, once
<1>1. ASSUME NEW t \in Senders, CallSend(t) \/ Send(t) PROVE CauseInv'
  <2>1. UNCHANGED <<ctxDone, closeStage, errs, why>>
    BY <1>1 DEF CallSend, Send, SendCancelled, SendQueued, SendParks, SendPanics
  <2>2. pc' = pc \/ \E label : pc' = [pc EXCEPT ![t] = label] /\ label # "close"
    BY <1>1 DEF CallSend, Send, SendCancelled, SendQueued, SendParks, SendPanics, Goto, AfterSend
  <2>3. pc[t] \notin {"close", "exit"}
    BY <1>1 DEF CallSend, MayCall, Send, SendCancelled, SendQueued, SendParks, SendPanics
  <2> QED BY <2>1, <2>2, <2>3 DEF TypeOK, PcOK, Threads, Senders, CauseInv, Reason
<1>2. ASSUME NEW t \in Senders, CallClose(t) PROVE CauseInv'
  <2>1. /\ pc[t] = IF t \in Callers THEN "idle" ELSE "handler"
        /\ pc' = [pc EXCEPT ![t] = "close"] /\ why' = [why EXCEPT ![t] = "nil"]
        /\ UNCHANGED <<ctxDone, closeStage, errs>>
    BY <1>2 DEF CallClose, MayCall, CloseWith, Goto
  <2>2. t \in Threads /\ pc'[t] = "close" /\ why'[t] = "nil"
        /\ \A u \in Threads \ {t} : pc'[u] = pc[u] /\ why'[u] = why[u]
    BY <2>1 DEF TypeOK, PcOK, Threads
  <2>3. "recvRaw" \in errs => t # "recvLoop"
    BY <2>1 DEF CauseInv
  <2>4. "recvRaw" \in errs => pc'["recvLoop"] \in {"close", "exit"}
    BY <2>2, <2>3 DEF CauseInv, Threads, Senders
  <2>5. closeStage = "open" => \A u \in Threads : pc'[u] = "close" => Reason(u)'
    BY <2>1, <2>2, <2>3 DEF CauseInv, Reason, Senders
  <2> QED BY <2>1, <2>4, <2>5 DEF CauseInv
<1>3. ASSUME NEW t \in Threads, EnterOnce(t) \/ LeaveOnce(t) PROVE CauseInv'
  BY <1>3 DEF EnterOnce, LeaveOnce, Goto, TypeOK, PcOK, Threads, Senders, CauseInv
<1>4. CASE ParentCancel
  <2>1. UNCHANGED <<closeStage, errs, why>> /\ ctxDone'
    BY <1>4 DEF ParentCancel, CancelCtx
  <2>2. \A t \in Threads : /\ pc'[t] = "close" => pc[t] = "close"
                           /\ pc[t] # "parked" => pc'[t] = pc[t]
    BY <1>4 DEF ParentCancel, CancelCtx, AfterSend
  <2>3. \A t \in Threads : Reason(t) => Reason(t)'
    BY <2>1 DEF Reason
  <2>4. errs' = errs /\ closeStage' = closeStage
    BY <2>1
  <2>5. pc["recvLoop"] \in {"close", "exit"} => pc'["recvLoop"] = pc["recvLoop"]
    BY <2>2 DEF Threads, Senders
  <2> QED BY <2>2, <2>3, <2>4, <2>5 DEF CauseInv
<1>5. CASE OnceCancel
  BY <1>5 DEF OnceCancel, CancelCtx, AfterSend, Threads, Senders, CauseInv
<1>6. CASE OnceCloseConn \/ OnceCloseSendChan \/ OnceCloseRecvChan \/ OnceOnClosed
  BY <1>6 DEF OnceCloseConn, OnceCloseSendChan, OnceCloseRecvChan, OnceOnClosed, CauseInv
<1>7. CASE RecvCheck
  <2>1. pc["recvLoop"] = "check" /\ UNCHANGED <<ctxDone, closeStage, errs>>
    BY <1>7 DEF RecvCheck
  <2>2. "recvRaw" \notin errs
    BY <2>1 DEF CauseInv
  <2>3. \A u \in Threads \ {"recvLoop"} : pc'[u] = pc[u] /\ why'[u] = why[u]
    BY <1>7 DEF RecvCheck, CloseWith, Goto, TypeOK, PcOK, Threads, Senders
  <2>4. pc'["recvLoop"] = "close" => why'["recvLoop"] = "nil"
    BY <1>7 DEF RecvCheck, CloseWith, Goto, TypeOK, PcOK, Threads, Senders
  <2> QED BY <2>1, <2>2, <2>3, <2>4 DEF CauseInv, Reason
<1>8. CASE RecvFrame
  <2>1. /\ pc["recvLoop"] = "read" /\ UNCHANGED <<ctxDone, closeStage, why>>
        /\ errs' \in {errs, errs \cup {"decode"}}
    BY <1>8 DEF RecvFrame
  <2>2. pc'["recvLoop"] \in {"deliver", "check"} /\ \A u \in Threads \ {"recvLoop"} : pc'[u] = pc[u]
    BY <1>8 DEF RecvFrame, Goto, TypeOK, PcOK, Threads, Senders
  <2> QED BY <2>1, <2>2 DEF CauseInv, Reason
<1>9. CASE RecvError
  <2>1. /\ UNCHANGED <<ctxDone, closeStage>> /\ errs' = errs \cup {"recvRaw"}
        /\ pc'["recvLoop"] = "close" /\ why'["recvLoop"] = "ErrRecvFailed"
        /\ \A u \in Threads \ {"recvLoop"} : pc'[u] = pc[u] /\ why'[u] = why[u]
    BY <1>9 DEF RecvError, CloseWith, Goto, TypeOK, PcOK, Threads, Senders
  <2> QED BY <2>1 DEF CauseInv, Reason
<1>10. CASE RecvDeliver
  <2>1. pc["recvLoop"] = "deliver" /\ UNCHANGED <<ctxDone, closeStage, errs>>
    BY <1>10 DEF RecvDeliver
  <2>2. "recvRaw" \notin errs
    BY <2>1 DEF CauseInv
  <2>3. \A u \in Threads \ {"recvLoop"} : pc'[u] = pc[u] /\ why'[u] = why[u]
    BY <1>10 DEF RecvDeliver, CloseWith, Goto, TypeOK, PcOK, Threads, Senders
  <2>4. pc'["recvLoop"] = "close" => why'["recvLoop"] = "nil"
    BY <1>10 DEF RecvDeliver, CloseWith, Goto, TypeOK, PcOK, Threads, Senders
  <2> QED BY <2>1, <2>2, <2>3, <2>4 DEF CauseInv, Reason
<1>11. CASE RecvHandle \/ HandlerReturns
  BY <1>11 DEF RecvHandle, HandlerReturns, Goto, TypeOK, PcOK, Threads, Senders, CauseInv, Reason
<1>12. CASE SendTake
  <2>1. UNCHANGED <<ctxDone, closeStage, errs, why>> /\ pc["sendLoop"] = "select"
    BY <1>12 DEF SendTake
  <2>2. \/ pc' = [pc EXCEPT !["sendLoop"] = "encode"]
        \/ \E t \in Senders :
             pc[t] = "parked" /\ pc' = [pc EXCEPT !["sendLoop"] = "encode", ![t] = AfterSend(t)]
    <3>1. CASE parked = <<>>
      BY <1>12, <3>1 DEF SendTake, Goto
    <3>2. CASE parked # <<>>
      <4>1. Head(parked).by \in Senders /\ Head(parked) = parked[1] /\ 1 \in 1..Len(parked)
        BY <3>2, Fronts, QueueTypes, Pop
      <4> QED BY <1>12, <3>2, <4>1 DEF SendTake, CallInv, ParkedInv
    <3> QED BY <3>1, <3>2
  <2> QED BY <2>1, <2>2 DEF AfterSend, TypeOK, PcOK, Threads, Senders, CauseInv, Reason
<1>13. CASE SendLoopDone
  <2>1. /\ ctxDone \/ sendClosed
        /\ UNCHANGED <<ctxDone, closeStage, errs>>
        /\ pc'["sendLoop"] = "close" /\ why'["sendLoop"] = "nil"
        /\ \A u \in Threads \ {"sendLoop"} : pc'[u] = pc[u] /\ why'[u] = why[u]
    BY <1>13 DEF SendLoopDone, CloseWith, Goto, TypeOK, PcOK, Threads, Senders
  <2>2. closeStage = "open" => ctxDone
    BY <2>1 DEF OnceInv
  <2> QED BY <2>1, <2>2 DEF CauseInv, Reason, Threads, Senders
<1>14. CASE EncodeOk \/ EncodeError \/ WriteOk
  BY <1>14 DEF EncodeOk, EncodeError, WriteOk, Goto, TypeOK, PcOK, Threads, Senders, CauseInv, Reason
<1>15. CASE WriteError
  <2>1. /\ UNCHANGED <<ctxDone, closeStage>> /\ errs' = errs \cup {"send"}
        /\ pc'["sendLoop"] = "close" /\ why'["sendLoop"] = "writeError"
        /\ \A u \in Threads \ {"sendLoop"} : pc'[u] = pc[u] /\ why'[u] = why[u]
    BY <1>15 DEF WriteError, CloseWith, Goto, TypeOK, PcOK, Threads, Senders
  <2> QED BY <2>1 DEF CauseInv, Reason, Threads, Senders
<1>16. CASE (\E k \in Kinds : PeerSend(k)) \/ PeerGone \/ Pull
  BY <1>16 DEF PeerSend, PeerGone, Pull, CauseInv, Reason
<1>17. CASE UNCHANGED vars
  BY <1>17 DEF vars, CauseInv, Reason
<1> QED BY <1>1, <1>2, <1>3, <1>4, <1>5, <1>6, <1>7, <1>8, <1>9, <1>10, <1>11, <1>12, <1>13, <1>14,
           <1>15, <1>16, <1>17 DEF Next, OnceBody, SendLoop, RecvLoop

\* Only the goroutine that enters closeOnce opens it, and it brings its reason.
LEMMA CauseEntered ==
  ASSUME TypeOK, CauseInv, Next, closeStage = "open", closeStage' # "open"
  PROVE  \E t \in Threads : Reason(t) /\ closer' = t /\ cause' = why[t]
<1> USE DEF once
<1>1. ASSUME NEW t \in Senders, CallSend(t) \/ Send(t) \/ CallClose(t) PROVE UNCHANGED closeStage
  BY <1>1 DEF CallSend, Send, SendCancelled, SendQueued, SendParks, SendPanics, CallClose
<1>2. CASE RecvLoop \/ SendLoop \/ WriteOk
  BY <1>2 DEF RecvLoop, RecvCheck, RecvFrame, RecvError, RecvDeliver, RecvHandle, HandlerReturns,
     SendLoop, SendTake, SendLoopDone, EncodeOk, EncodeError, WriteError, WriteOk
<1>3. CASE OnceBody \/ ParentCancel
  BY <1>3 DEF OnceBody, OnceCancel, OnceCloseConn, OnceCloseSendChan, OnceCloseRecvChan,
     OnceOnClosed, ParentCancel
<1>4. ASSUME NEW t \in Threads, EnterOnce(t) \/ LeaveOnce(t)
      PROVE  Reason(t) /\ closer' = t /\ cause' = why[t]
  BY <1>4 DEF EnterOnce, LeaveOnce, CauseInv
<1>5. CASE (\E k \in Kinds : PeerSend(k)) \/ PeerGone \/ Pull
  BY <1>5 DEF PeerSend, PeerGone, Pull
<1> QED BY <1>1, <1>2, <1>3, <1>4, <1>5 DEF Next

\* OnClosed is told the reason of the goroutine that ended the session, and that reason is true.
THEOREM CauseIsTold == Spec => CauseIsFaithful
<1> DEFINE Faithful ==
      closeStage = "open" /\ closeStage' # "open" =>
        \/ /\ cause' = "nil"
           /\ \/ ctxDone \/ closer' \in Callers
              \/ (closer' = "recvLoop" /\ "recvRaw" \notin errs)
        \/ (cause' = "ErrRecvFailed" /\ closer' = "recvLoop" /\ "recvRaw" \in errs)
        \/ (cause' = "writeError" /\ closer' = "sendLoop" /\ "send" \in errs)
<1>1. TypeOK /\ CauseInv /\ [Next]_vars => [Faithful]_vars
  BY CauseEntered DEF Reason
<1>2. Spec => []CauseInv
  BY InitCause, CauseStep, InitOnce, OnceStep, InitCalls, CallStep, TypeCorrect, PTL DEF Spec
<1> QED BY <1>1, <1>2, TypeCorrect, PTL DEF Spec, CauseIsFaithful

-----------------------------------------------------------------------------
(* Messages after the cancellation.                                        *)

\* recvLoop is inside an OnMessage that began under a cancelled context, or behind it:
\* the only way from here is back to the check of the context, and out of the loop.
Leaving ==
  ctxDone /\ pc["recvLoop"] \in {"handler", "check", "sending", "parked", "close", "exit"}

LEMMA LeavingStep == TypeOK /\ Leaving /\ [Next]_vars => Leaving'
<1> SUFFICES ASSUME TypeOK, Leaving, [Next]_vars
             PROVE  Leaving'
  OBVIOUS
<1> USE SessionAssumption DEF TypeOK, PcOK, Threads, Senders, Goto, CloseWith, AfterSend, Leaving
<1>1. ASSUME NEW t \in Senders, CallSend(t) \/ Send(t) \/ CallClose(t)
      PROVE  Leaving'
  BY <1>1 DEF CallSend, Send, SendCancelled, SendQueued, SendParks, SendPanics, CallClose, context
<1>2. ASSUME NEW t \in Threads, EnterOnce(t) \/ LeaveOnce(t)
      PROVE  Leaving'
  BY <1>2 DEF EnterOnce, LeaveOnce, context
<1>3. CASE OnceBody \/ ParentCancel
  BY <1>3 DEF OnceBody, OnceCancel, OnceCloseConn, OnceCloseSendChan, OnceCloseRecvChan,
     OnceOnClosed, ParentCancel, CancelCtx, context
<1>4. CASE RecvLoop
  BY <1>4 DEF RecvLoop, RecvCheck, RecvFrame, RecvError, RecvDeliver, RecvHandle, HandlerReturns,
     context
<1>5. CASE SendTake
  <2>1. CASE parked = <<>>
    BY <1>5, <2>1 DEF SendTake, context
  <2>2. CASE parked # <<>>
    <3>1. Head(parked).by \in Senders
      BY <2>2, Fronts
    <3> QED BY <1>5, <2>2, <3>1 DEF SendTake, context
  <2> QED BY <2>1, <2>2
<1>6. CASE SendLoopDone \/ EncodeOk \/ EncodeError \/ WriteError \/ WriteOk
  BY <1>6 DEF SendLoopDone, EncodeOk, EncodeError, WriteError, WriteOk, context
<1>7. CASE (\E k \in Kinds : PeerSend(k)) \/ PeerGone \/ Pull
  BY <1>7 DEF PeerSend, PeerGone, Pull, context
<1>8. CASE UNCHANGED vars
  BY <1>8 DEF vars, context
<1> QED BY <1>1, <1>2, <1>3, <1>4, <1>5, <1>6, <1>7, <1>8 DEF Next, SendLoop

\* Of the OnMessage calls under a cancelled context only one is ever made: while it runs,
\* and from then on, recvLoop does not come to another one.
THEOREM CancelEndsMessages == Spec => LastMessage
<1>1. ctxDone /\ pc["recvLoop"] = "handler" => Leaving
  BY DEF Leaving
<1>2. Leaving => pc["recvLoop"] # "onMessage"
  BY DEF Leaving
<1> QED BY <1>1, <1>2, LeavingStep, TypeCorrect, PTL DEF Spec, LastMessage

-----------------------------------------------------------------------------
(* The session implements OutboundStream.                                  *)

LEMMA InitStream == Init => Stream!Init
BY DEF Init, Stream!Init

\* A message accepted from a goroutine inside Send has not been accepted before.
LEMMA AcceptsOnce ==
  ASSUME TypeOK, CallInv, NEW t \in Senders, pc[t] \in {"sending", "parked"}, ~sendClosed,
         accepted' = Append(accepted, Pending(t)), UNCHANGED <<written, connClosed, sendClosed>>
  PROVE  Stream!Next
<1>1. Pending(t) \in Message /\ Pending(t).by = t /\ Pending(t).n = sends[t] /\ sends[t] \in Nat
  BY PendingMessage DEF Pending, TypeOK, OutboundOK
<1>2. \A i \in 1..Len(accepted) : accepted[i] # Pending(t)
  BY <1>1 DEF CallInv, SettledInv, Settled
<1>3. Stream!Accept(Pending(t))
  BY <1>2 DEF Stream!Accept
<1> QED BY <1>1, <1>3 DEF Stream!Next

LEMMA StreamStep ==
  TypeOK /\ QueueInv /\ CallInv /\ OnceInv /\ [Next]_vars => [Stream!Next]_(Stream!vars)
<1> SUFFICES ASSUME TypeOK, QueueInv, CallInv, OnceInv, [Next]_vars
             PROVE  Stream!Next \/ UNCHANGED <<accepted, written, connClosed, sendClosed>>
  BY DEF Stream!vars
<1> DEFINE Hidden == UNCHANGED <<accepted, written, connClosed, sendClosed>>
<1> USE DEF context, once, outbound
<1>1. ASSUME NEW t \in Senders, SendQueued(t)
      PROVE  Stream!Next
  BY <1>1, AcceptsOnce DEF SendQueued
<1>2. ASSUME NEW t \in Senders,
             CallSend(t) \/ CallClose(t) \/ SendCancelled(t) \/ SendParks(t) \/ SendPanics(t)
      PROVE  Hidden
  BY <1>2 DEF CallSend, CallClose, SendCancelled, SendParks, SendPanics
<1>3. ASSUME NEW t \in Threads, EnterOnce(t) \/ LeaveOnce(t)
      PROVE  Hidden
  BY <1>3 DEF EnterOnce, LeaveOnce
<1>4. CASE OnceCancel \/ ParentCancel \/ OnceCloseRecvChan \/ OnceOnClosed
  BY <1>4 DEF OnceCancel, ParentCancel, OnceCloseRecvChan, OnceOnClosed
<1>5. CASE OnceCloseConn
  <2>1. Stream!Cut
    BY <1>5 DEF OnceCloseConn, OnceInv, Stream!Cut
  <2> QED BY <2>1 DEF Stream!Next
<1>6. CASE OnceCloseSendChan
  <2>1. Stream!Seal
    BY <1>6 DEF OnceCloseSendChan, OnceInv, Stream!Seal
  <2> QED BY <2>1 DEF Stream!Next
<1>7. CASE RecvLoop
  BY <1>7 DEF RecvLoop, RecvCheck, RecvFrame, RecvError, RecvDeliver, RecvHandle,
     HandlerReturns
<1>8. CASE SendTake
  <2>1. CASE parked = <<>>
    BY <1>8, <2>1 DEF SendTake
  <2>2. CASE parked # <<>>
    <3> DEFINE t == Head(parked).by
    <3>1. Head(parked) \in Message /\ t \in Senders /\ Head(parked) = parked[1]
          /\ 1 \in 1..Len(parked)
      BY <2>2, Fronts, QueueTypes, Pop
    <3>2. pc[t] = "parked" /\ Head(parked).n = sends[t]
      BY <3>1 DEF CallInv, ParkedInv
    <3>3. Head(parked) = Pending(t)
      BY <3>1, <3>2 DEF Pending, Message
    <3>4. ~sendClosed
      BY <2>2 DEF OnceInv
    <3>5. accepted' = Append(accepted, Pending(t)) /\ UNCHANGED <<written, connClosed, sendClosed>>
      BY <1>8, <2>2, <3>3 DEF SendTake
    <3> QED BY <3>1, <3>2, <3>4, <3>5, AcceptsOnce
  <2> QED BY <2>1, <2>2
<1>9. CASE SendLoopDone \/ EncodeOk \/ EncodeError \/ WriteError
  BY <1>9 DEF SendLoopDone, EncodeOk, EncodeError, WriteError
<1>10. CASE WriteOk
  <2>1. /\ Holding /\ ~connClosed
        /\ written' = Append(written, [seq |-> seq, msg |-> hand])
        /\ UNCHANGED <<accepted, connClosed, sendClosed>>
    BY <1>10 DEF WriteOk, Holding
  <2>2. seq \in 1..Len(accepted) /\ hand = accepted[seq]
    BY <2>1, QueueTypes DEF QueueInv, StreamInv, HandInv
  <2>3. \A i \in 1..Len(written) : written[i].seq < seq
    BY <2>1 DEF QueueInv, WireInv
  <2>4. Stream!Transmit(seq)
    BY <2>1, <2>2, <2>3 DEF Stream!Transmit
  <2> QED BY <2>2, <2>4 DEF Stream!Next
<1>11. CASE (\E k \in Kinds : PeerSend(k)) \/ PeerGone \/ Pull
  BY <1>11 DEF PeerSend, PeerGone, Pull
<1>12. CASE UNCHANGED vars
  BY <1>12 DEF vars
<1> QED BY <1>1, <1>2, <1>3, <1>4, <1>5, <1>6, <1>7, <1>8, <1>9, <1>10, <1>11, <1>12
        DEF Next, OnceBody, SendLoop, Send

\* The queue, the parked senders, the goroutines and the steps of close are invisible to
\* the peer: what it sees is an OutboundStream, cut when the connection is closed.
THEOREM SessionImplementsStream == Spec => ImplementsStream
<1>1. Spec => [](TypeOK /\ QueueInv /\ CallInv /\ OnceInv)
  BY InitQueue, QueueStep, InitCalls, CallStep, InitOnce, OnceStep, TypeCorrect, PTL DEF Spec
<1> QED BY InitStream, StreamStep, <1>1, PTL DEF Spec, ImplementsStream, Stream!Spec
=============================================================================
