---------------------------- MODULE SessionProof ----------------------------
(***************************************************************************)
(* Proofs about Session for any callers, bounds and answers: the types, the*)
(* error a call reports when the client closes, the request ids, and the   *)
(* frames on the wire.                                                     *)
(***************************************************************************)
EXTENDS Session, SequenceTheorems, TLAPS

\* The receiver is busy with a push only if it has decoded one.
Holding == {"lock", "send", "flush", "handover", "put"}
HandHeld == pc[Rx] \in Holding => received # <<>>

TypeInv == TypeOK /\ HandHeld

\* Threads and the two session threads among them.
LEMMA ThreadFacts ==
  /\ Rx \in Threads /\ Hb \in Threads /\ Callers \subseteq Threads
  /\ Rx \notin Callers /\ Hb \notin Callers /\ Rx # Hb
  /\ Rx # Nobody /\ Hb # Nobody /\ Nobody \notin Callers
BY ThreadsAssumption DEF Threads, Callers, Rx, Hb, Nobody

LEMMA NumberFacts ==
  /\ PushCap \in Nat /\ PushCap > 0 /\ AckCap \in Nat /\ AckCap > 0
  /\ MaxPushes \in Nat /\ MaxBeats \in Nat /\ MaxCalls \in Nat /\ MaxNoise \in Nat
BY NumbersAssumption

LEMMA InitTypeInv == Init => TypeInv
<1> SUFFICES ASSUME Init PROVE TypeInv
  OBVIOUS
<1>1. HandHeld
  BY ThreadFacts DEF Init, HandHeld, Holding
<1>2. ThreadsOK
  BY DEF Init, ThreadsOK, Lines, NoRequest, Requests
<1>3. NetOK
  BY DEF Init, NetOK
<1>4. QueuesOK
  <2>1. Len(pushes) <= PushCap /\ Len(acks) <= AckCap
    BY NumberFacts DEF Init
  <2>2. /\ pushes \in Seq(Nat) /\ acks \in Seq(AckFrames)
        /\ received \in Seq(Nat) /\ taken \in Seq(Nat)
    BY DEF Init
  <2> QED BY <2>1, <2>2 DEF Init, QueuesOK
<1>5. CloseOK /\ CallsOK /\ EnvOK
  BY DEF Init, CloseOK, CallsOK, EnvOK, Results
<1> QED BY <1>1, <1>2, <1>3, <1>4, <1>5 DEF TypeInv, TypeOK

(***************************************************************************)
(* One lemma per group of actions: each preserves the types.               *)
(***************************************************************************)
LEMMA WriteType == ASSUME TypeInv, NEW t \in Threads, Write(t) PROVE TypeInv'
<1> USE ThreadFacts DEF TypeInv, TypeOK
<1>1. CASE AcquireWrite(t)
  <2> USE <1>1 DEF AcquireWrite, Goto
  <2>1. ThreadsOK' /\ HandHeld'
    BY DEF ThreadsOK, Lines, HandHeld, Holding, queueVars
  <2>2. CloseOK' /\ NetOK' /\ QueuesOK' /\ CallsOK' /\ EnvOK'
    BY DEF CloseOK, NetOK, QueuesOK, CallsOK, EnvOK, closeVars, netVars, queueVars,
       callVars
  <2> QED BY <2>1, <2>2
<1>2. CASE SendHalf(t)
  <2> USE <1>2 DEF SendHalf, Goto
  <2>1. ThreadsOK'
    <3>1. pc' \in [Threads -> Lines]
      BY DEF ThreadsOK, Lines, Sent, AfterSend
    <3>2. req' \in [Threads -> Requests]
      <4>1. NoRequest \in Requests
        BY DEF NoRequest, Requests
      <4>2. req' \in {req, [req EXCEPT ![t] = NoRequest]}
        BY DEF Sent
      <4> QED BY <4>1, <4>2 DEF ThreadsOK
    <3>3. writeLock' \in Threads \union {Nobody}
      BY DEF ThreadsOK, Sent
    <3>4. rid' = rid /\ closeLock' = closeLock
      OBVIOUS
    <3> HIDE DEF SendHalf
    <3> QED BY <3>1, <3>2, <3>3, <3>4 DEF ThreadsOK
  <2>2. NetOK'
    <3>1. [half |-> pc[t], kind |-> req[t].kind, rid |-> req[t].rid] \in Halves
      BY DEF ThreadsOK, Requests, Halves
    <3>2. wire \in Seq(Halves) => wire' \in Seq(Halves)
      BY <3>1, AppendProperties
    <3>3. peer' \in {"up", "fin", "rst"} /\ inbound' = inbound /\ srvHalf' = srvHalf
      BY DEF NetOK
    <3> QED BY <3>2, <3>3 DEF NetOK
  <2>3. QueuesOK'
    BY DEF QueuesOK, Sent
  <2>4. CloseOK' /\ CallsOK' /\ EnvOK'
    BY DEF CloseOK, CallsOK, EnvOK, closeVars, callVars
  <2>5. HandHeld'
    BY DEF ThreadsOK, HandHeld, Holding, Sent, AfterSend
  <2> QED BY <2>1, <2>2, <2>3, <2>4, <2>5
<1>3. CASE SendFails(t)
  <2> USE <1>3 DEF SendFails, Goto, Return
  <2>1. ThreadsOK' /\ HandHeld'
    BY DEF ThreadsOK, Lines, HandHeld, Holding, NoRequest, Requests, queueVars
  <2>2. CallsOK'
    BY DEF CallsOK, Results
  <2>3. CloseOK' /\ NetOK' /\ QueuesOK' /\ EnvOK'
    BY DEF CloseOK, NetOK, QueuesOK, EnvOK, closeVars, netVars, queueVars
  <2> QED BY <2>1, <2>2, <2>3
<1> QED BY <1>1, <1>2, <1>3 DEF Write

LEMMA CloseType == ASSUME TypeInv, NEW t \in Threads, Close(t) PROVE TypeInv'
<1> USE ThreadFacts DEF TypeInv, TypeOK
<1>1. CASE CloseEnter(t)
  <2> USE <1>1 DEF CloseEnter, LeaveClose, Goto, Return
  <2>1. pc' \in [Threads -> Lines] /\ HandHeld'
    BY DEF ThreadsOK, Lines, HandHeld, Holding, queueVars
  <2>2. ThreadsOK'
    BY <2>1 DEF ThreadsOK
  <2>3. CloseOK'
    BY DEF CloseOK, CauseOf
  <2>4. CallsOK'
    BY DEF CallsOK, Results
  <2>5. NetOK' /\ QueuesOK' /\ EnvOK'
    BY DEF NetOK, QueuesOK, EnvOK, netVars, queueVars
  <2> QED BY <2>1, <2>2, <2>3, <2>4, <2>5
<1>2. CASE CloseSetDone(t)
  <2> USE <1>2 DEF CloseSetDone, Goto
  <2>1. ThreadsOK' /\ HandHeld'
    BY DEF ThreadsOK, Lines, HandHeld, Holding, lockVars, queueVars
  <2>2. CloseOK'
    BY DEF CloseOK
  <2>3. NetOK' /\ QueuesOK' /\ CallsOK' /\ EnvOK'
    BY DEF NetOK, QueuesOK, CallsOK, EnvOK, netVars, queueVars, callVars
  <2> QED BY <2>1, <2>2, <2>3
<1>3. CASE CloseSocket(t)
  <2> USE <1>3 DEF CloseSocket, LeaveClose, Goto, Return
  <2>1. ThreadsOK' /\ HandHeld'
    BY DEF ThreadsOK, Lines, HandHeld, Holding, queueVars
  <2>2. CloseOK'
    BY DEF CloseOK
  <2>3. CallsOK'
    BY DEF CallsOK, Results
  <2>4. NetOK' /\ QueuesOK' /\ EnvOK'
    BY DEF NetOK, QueuesOK, EnvOK, netVars, queueVars
  <2> QED BY <2>1, <2>2, <2>3, <2>4
<1> QED BY <1>1, <1>2, <1>3 DEF Close

\* _next_rid keeps the types of the threads' part.
LEMMA EncodeType ==
  ASSUME ThreadsOK, NEW t \in Threads, NEW kind \in {"beat", "alias", "pushack"},
         Encode(t, kind), UNCHANGED lockVars
  PROVE  ThreadsOK'
<1>1. [kind |-> kind, rid |-> rid + 1] \in Requests
  BY DEF ThreadsOK, Requests
<1>2. req' \in [Threads -> Requests]
  BY <1>1 DEF Encode, ThreadsOK
<1>3. pc' \in [Threads -> Lines]
  BY DEF Encode, Goto, ThreadsOK, Lines
<1> QED BY <1>2, <1>3 DEF Encode, ThreadsOK, lockVars

(***************************************************************************)
(* The receiver.                                                           *)
(***************************************************************************)
\* A frame leaves the connection; what is left is still frames.
LEMMA RecvType ==
  ASSUME NetOK, CloseOK, CallsOK, EnvOK, NEW kinds, RxRecv(kinds)
  PROVE  /\ NetOK' /\ CloseOK' /\ CallsOK' /\ EnvOK'
         /\ Head(inbound) \in Frames /\ UNCHANGED lockVars
<1>1. Head(inbound) \in Frames /\ inbound' \in Seq(Frames)
  BY HeadTailProperties DEF NetOK, RxRecv
<1>2. NetOK'
  BY <1>1 DEF RxRecv, NetOK
<1> QED BY <1>1, <1>2 DEF RxRecv, CloseOK, CallsOK, EnvOK, closeVars, callVars

LEMMA RxReadType ==
  ASSUME TypeInv, RxPush \/ RxAck \/ RxJunk \/ RxShort PROVE TypeInv'
<1> USE ThreadFacts DEF TypeInv, TypeOK
<1>1. CASE RxPush
  <2>1. Head(inbound).kind = "push" /\ Head(inbound) \in Frames
        /\ NetOK' /\ CloseOK' /\ CallsOK' /\ EnvOK' /\ UNCHANGED lockVars
    BY <1>1, RecvType DEF RxPush, RxRecv
  <2>2. Head(inbound).id \in Nat
    BY <2>1 DEF Frames, AckFrames
  <2>3. received' \in Seq(Nat) /\ received' # <<>>
    <3>1. received \in Seq(Nat) /\ received' = Append(received, Head(inbound).id)
      BY <1>1 DEF RxPush, QueuesOK
    <3> QED BY <2>2, <3>1, AppendProperties
  <2>4. QueuesOK'
    BY <1>1, <2>3 DEF RxPush, QueuesOK
  <2>5. ThreadsOK'
    BY <1>1, <2>1, EncodeType DEF RxPush
  <2> QED BY <2>1, <2>3, <2>4, <2>5 DEF HandHeld
<1>2. CASE RxAck
  <2>1. Head(inbound).kind = "ack" /\ Head(inbound) \in Frames
        /\ NetOK' /\ CloseOK' /\ CallsOK' /\ EnvOK' /\ UNCHANGED lockVars
    BY <1>2, RecvType DEF RxAck, RxRecv
  <2>2. Head(inbound) \in AckFrames
    BY <2>1 DEF Frames, AckFrames
  <2>3. acks' \in Seq(AckFrames) /\ Len(acks') <= AckCap
    <3>1. acks \in Seq(AckFrames) /\ Len(acks) <= AckCap
      BY DEF QueuesOK
    <3>2. CASE Len(acks) < AckCap
      <4>1. acks' = Append(acks, Head(inbound))
        BY <1>2, <3>2 DEF RxAck
      <4>2. acks' \in Seq(AckFrames) /\ Len(acks') = Len(acks) + 1 /\ Len(acks) \in Nat
        BY <2>2, <3>1, <4>1, AppendProperties, LenProperties
      <4> QED BY <3>2, <4>2, NumberFacts
    <3>3. CASE ~(Len(acks) < AckCap)
      BY <1>2, <3>1, <3>3 DEF RxAck
    <3> QED BY <3>2, <3>3
  <2>4. ackDropped' \in BOOLEAN
    BY <1>2 DEF RxAck, QueuesOK
  <2>5. QueuesOK'
    BY <1>2, <2>3, <2>4 DEF RxAck, QueuesOK
  <2>6. ThreadsOK' /\ HandHeld'
    BY <1>2, <2>1 DEF RxAck, Goto, ThreadsOK, Lines, HandHeld, Holding, lockVars
  <2> QED BY <2>1, <2>5, <2>6
<1>3. CASE RxJunk \/ RxShort
  <2>1. NetOK' /\ CloseOK' /\ CallsOK' /\ EnvOK' /\ UNCHANGED lockVars
    BY <1>3, RecvType DEF RxJunk, RxShort
  <2>2. ThreadsOK' /\ HandHeld'
    BY <1>3, <2>1 DEF RxJunk, RxShort, RxFail, Goto, ThreadsOK, Lines, HandHeld,
       Holding, lockVars
  <2>3. QueuesOK'
    BY <1>3 DEF RxJunk, RxShort, RxFail, QueuesOK, queueVars
  <2> QED BY <2>1, <2>2, <2>3
<1> QED BY <1>1, <1>2, <1>3

LEMMA RxOwnType ==
  ASSUME TypeInv, RxCheck \/ RxEof \/ RxClosed \/ RxHandover PROVE TypeInv'
<1> USE ThreadFacts DEF TypeInv, TypeOK
<1>1. ThreadsOK' /\ HandHeld'
  BY DEF RxCheck, RxEof, RxClosed, RxHandover, RxFail, Goto, ThreadsOK, Lines,
     HandHeld, Holding, lockVars, queueVars
<1>2. CloseOK' /\ NetOK'
  BY DEF RxCheck, RxEof, RxClosed, RxHandover, CloseOK, NetOK, closeVars, netVars
<1>3. QueuesOK'
  BY DEF RxCheck, RxEof, RxClosed, RxHandover, RxFail, QueuesOK, queueVars
<1>4. CallsOK' /\ EnvOK'
  BY DEF RxCheck, RxEof, RxClosed, RxHandover, CallsOK, EnvOK, callVars
<1> QED BY <1>1, <1>2, <1>3, <1>4

LEMMA RxPutType == ASSUME TypeInv, RxPut PROVE TypeInv'
<1> USE ThreadFacts DEF TypeInv, TypeOK
<1>1. received[Len(received)] \in Nat
  BY LenProperties DEF RxPut, HandHeld, Holding, QueuesOK
<1>2. pushes' \in Seq(Nat) /\ Len(pushes') <= PushCap
  <2>1. pushes \in Seq(Nat) /\ Len(pushes) <= PushCap
    BY DEF QueuesOK
  <2>2. CASE Len(pushes) < PushCap
    <3>1. pushes' = Append(pushes, received[Len(received)])
      BY <2>2 DEF RxPut
    <3>2. pushes' \in Seq(Nat) /\ Len(pushes') = Len(pushes) + 1 /\ Len(pushes) \in Nat
      BY <1>1, <2>1, <3>1, AppendProperties, LenProperties
    <3> QED BY <2>2, <3>2, NumberFacts
  <2>3. CASE ~(Len(pushes) < PushCap)
    BY <2>1, <2>3 DEF RxPut
  <2> QED BY <2>2, <2>3
<1>3. QueuesOK'
  BY <1>2 DEF RxPut, QueuesOK
<1>4. ThreadsOK' /\ HandHeld'
  BY DEF RxPut, Goto, ThreadsOK, Lines, HandHeld, Holding, lockVars
<1>5. CloseOK' /\ NetOK' /\ CallsOK' /\ EnvOK'
  BY DEF RxPut, CloseOK, NetOK, CallsOK, EnvOK, closeVars, netVars, callVars
<1> QED BY <1>3, <1>4, <1>5

(***************************************************************************)
(* The heartbeat, the callers, the server and the network.                 *)
(***************************************************************************)
LEMMA HbType == ASSUME TypeInv, HbFire \/ HbStop PROVE TypeInv'
<1> USE ThreadFacts DEF TypeInv, TypeOK
<1>1. CASE HbFire
  <2>1. ThreadsOK'
    BY <1>1, EncodeType DEF HbFire
  <2>2. EnvOK'
    BY <1>1 DEF HbFire, EnvOK
  <2>3. HandHeld'
    BY <1>1 DEF HbFire, Encode, Goto, HandHeld, ThreadsOK, queueVars
  <2>4. CloseOK' /\ NetOK' /\ QueuesOK' /\ CallsOK'
    BY <1>1 DEF HbFire, CloseOK, NetOK, QueuesOK, CallsOK, closeVars, netVars,
       queueVars, callVars
  <2> QED BY <2>1, <2>2, <2>3, <2>4
<1>2. CASE HbStop
  <2>1. ThreadsOK' /\ HandHeld'
    BY <1>2 DEF HbStop, Goto, ThreadsOK, Lines, HandHeld, lockVars, queueVars
  <2>2. CloseOK' /\ NetOK' /\ QueuesOK' /\ CallsOK' /\ EnvOK'
    BY <1>2 DEF HbStop, CloseOK, NetOK, QueuesOK, CallsOK, EnvOK, closeVars, netVars,
       queueVars, callVars
  <2> QED BY <2>1, <2>2
<1> QED BY <1>1, <1>2

LEMMA CallType == ASSUME TypeInv, NEW c \in Callers, AppCall(c) PROVE TypeInv'
<1> USE ThreadFacts DEF TypeInv, TypeOK
<1>1. PICK what \in {"alias", "push", "close"} : Call(c, what)
  BY DEF AppCall, CallSetAlias, CallWait, CallClose
<1>2. CallsOK'
  <2>1. timed' \in [Callers -> BOOLEAN]
    BY <1>1, ThreadsAssumption DEF Call, CallsOK
  <2> QED BY <1>1, <2>1 DEF Call, CallsOK, Results
<1>3. EnvOK'
  BY <1>1 DEF Call, Use, EnvOK
<1>4. ThreadsOK'
  <2>1. CASE CallSetAlias(c)
    BY <1>1, <2>1, EncodeType DEF Call, CallSetAlias
  <2>2. CASE CallWait(c) \/ CallClose(c)
    BY <1>1, <2>2 DEF Call, CallWait, CallClose, Goto, ThreadsOK, Lines, lockVars
  <2> QED BY <2>1, <2>2 DEF AppCall
<1>5. HandHeld'
  BY <1>1 DEF AppCall, CallSetAlias, CallWait, CallClose, Call, Encode, Goto, HandHeld,
     ThreadsOK, queueVars
<1>6. CloseOK' /\ NetOK' /\ QueuesOK'
  BY <1>1 DEF Call, CloseOK, NetOK, QueuesOK, closeVars, netVars, queueVars
<1> QED BY <1>2, <1>3, <1>4, <1>5, <1>6

LEMMA TakeType ==
  ASSUME TypeInv, NEW c \in Callers, TakePush(c) \/ TakeAck(c) PROVE TypeInv'
<1> USE ThreadFacts DEF TypeInv, TypeOK
<1>1. ThreadsOK' /\ HandHeld'
  BY DEF TakePush, TakeAck, Return, Goto, ThreadsOK, Lines, HandHeld, lockVars
<1>2. CallsOK'
  BY DEF TakePush, TakeAck, Return, CallsOK, Results
<1>3. QueuesOK'
  <2>1. CASE TakePush(c)
    <3>1. Head(pushes) \in Nat /\ Tail(pushes) \in Seq(Nat)
          /\ Len(Tail(pushes)) <= PushCap
      BY <2>1, HeadTailProperties, LenProperties, NumberFacts DEF TakePush, QueuesOK
    <3>2. Append(taken, Head(pushes)) \in Seq(Nat)
      BY <3>1, AppendProperties DEF QueuesOK
    <3> QED BY <2>1, <3>1, <3>2 DEF TakePush, QueuesOK
  <2>2. CASE TakeAck(c)
    <3>1. Tail(acks) \in Seq(AckFrames) /\ Len(Tail(acks)) <= AckCap
      BY <2>2, HeadTailProperties, LenProperties, NumberFacts DEF TakeAck, QueuesOK
    <3> QED BY <2>2, <3>1 DEF TakeAck, QueuesOK
  <2> QED BY <2>1, <2>2
<1>4. CloseOK' /\ NetOK' /\ EnvOK'
  BY DEF TakePush, TakeAck, CloseOK, NetOK, EnvOK, closeVars, netVars
<1> QED BY <1>1, <1>2, <1>3, <1>4

LEMMA WaitType ==
  ASSUME TypeInv, NEW c \in Callers, QueueEmpty(c) \/ IsDone(c) \/ TimeOut(c)
  PROVE  TypeInv'
<1> USE ThreadFacts DEF TypeInv, TypeOK
<1>1. ThreadsOK' /\ HandHeld'
  BY DEF QueueEmpty, IsDone, TimeOut, GiveUp, Return, Goto, ThreadsOK, Lines, HandHeld,
     lockVars, queueVars
<1>2. CallsOK'
  BY DEF QueueEmpty, IsDone, TimeOut, GiveUp, Return, ClosedError, CallsOK, CloseOK,
     Results, callVars
<1>3. CloseOK' /\ NetOK' /\ EnvOK'
  BY DEF QueueEmpty, IsDone, TimeOut, CloseOK, NetOK, EnvOK, closeVars, netVars
<1>4. QueuesOK'
  BY DEF QueueEmpty, IsDone, TimeOut, QueuesOK, queueVars
<1> QED BY <1>1, <1>2, <1>3, <1>4

LEMMA EnvironmentType == ASSUME TypeInv, Environment PROVE TypeInv'
<1> USE ThreadFacts DEF TypeInv, TypeOK
<1>1. UNCHANGED <<pc, req, rid, lockVars, closeVars, queueVars, callVars>>
  <2>1. CASE \E kind \in Noise : SrvNoise(kind)
    BY <2>1 DEF SrvNoise
  <2>2. CASE SrvPush \/ SrvRead
    BY <2>2 DEF SrvPush, SrvRead
  <2>3. CASE PeerFin \/ PeerReset
    BY <2>3 DEF PeerFin, PeerReset, PeerGone
  <2> QED BY <2>1, <2>2, <2>3 DEF Environment
<1>5. ThreadsOK' /\ CloseOK' /\ QueuesOK' /\ CallsOK' /\ HandHeld'
  BY <1>1 DEF ThreadsOK, CloseOK, QueuesOK, CallsOK, HandHeld, lockVars, closeVars,
     queueVars, callVars
<1>2. EnvOK'
  <2>1. CASE \E kind \in Noise : SrvNoise(kind)
    BY <2>1 DEF SrvNoise, Use, EnvOK
  <2>2. CASE SrvPush
    BY <2>2 DEF SrvPush, Use, EnvOK
  <2>3. CASE SrvRead \/ PeerFin \/ PeerReset
    BY <2>3 DEF SrvRead, PeerFin, PeerReset, PeerGone, EnvOK
  <2> QED BY <2>1, <2>2, <2>3 DEF Environment
<1>3. inbound' \in Seq(Frames)
  <2>1. CASE \E kind \in Noise : SrvNoise(kind)
    <3>1. PICK kind \in Noise : SrvNoise(kind)
      BY <2>1
    <3>2. (IF kind = "other" THEN AckFrame("other", 0, 0) ELSE [kind |-> kind]) \in Frames
      BY NoiseAssumption DEF Frames, AckFrame, AckFrames
    <3> QED BY <3>1, <3>2, AppendProperties DEF SrvNoise, NetOK
  <2>2. CASE SrvPush
    <3>1. PushFrame(env.pushes + 1) \in Frames
      BY DEF EnvOK, PushFrame, Frames
    <3> QED BY <2>2, <3>1, AppendProperties DEF SrvPush, NetOK
  <2>3. CASE SrvRead
    <3>1. Head(wire) \in Halves
      BY <2>3, HeadTailProperties DEF SrvRead, NetOK
    <3>2. CASE UNCHANGED inbound
      BY <3>2 DEF NetOK
    <3>3. CASE ~UNCHANGED inbound
      <4>1. PICK n \in Replies, s \in Statuses :
              inbound' = inbound \o [i \in 1..n |-> AckFrame("alias", s, Head(wire).rid)]
        BY <2>3, <3>3 DEF SrvRead
      <4>2. AckFrame("alias", s, Head(wire).rid) \in Frames
        BY <3>1, NumbersAssumption DEF AckFrame, Frames, AckFrames, Halves
      <4>3. [i \in 1..n |-> AckFrame("alias", s, Head(wire).rid)] \in Seq(Frames)
        BY <4>2, NumbersAssumption, SeqDef
      <4> QED BY <4>1, <4>3, ConcatProperties DEF NetOK
    <3> QED BY <3>2, <3>3
  <2>4. CASE PeerFin
    BY <2>4 DEF PeerFin, NetOK
  <2>5. CASE PeerReset
    <3>1. PICK n \in 0..Len(inbound) : inbound' = SubSeq(inbound, 1, n)
      BY <2>5 DEF PeerReset
    <3>2. Len(inbound) \in Nat /\ \A i \in 1..Len(inbound) : inbound[i] \in Frames
      BY LenProperties DEF NetOK
    <3>3. n \in Int /\ \A i \in 1..n : inbound[i] \in Frames
      BY <3>2
    <3> QED BY <3>1, <3>2, <3>3, SubSeqProperties
  <2> QED BY <2>1, <2>2, <2>3, <2>4, <2>5 DEF Environment
<1>4. wire' \in Seq(Halves) /\ srvHalf' \in Nat /\ peer' \in {"up", "fin", "rst"}
  <2>1. CASE SrvRead
    <3>1. Head(wire) \in Halves /\ Tail(wire) \in Seq(Halves)
      BY <2>1, HeadTailProperties DEF SrvRead, NetOK
    <3> QED BY <2>1, <3>1 DEF SrvRead, NetOK, Halves
  <2>2. CASE PeerFin \/ PeerReset
    <3>1. wire' = <<>> /\ srvHalf' = 0 /\ peer' \in {"up", "fin", "rst"}
      BY <2>2 DEF PeerFin, PeerReset, PeerGone
    <3>2. <<>> \in Seq(Halves)
      BY EmptySeq
    <3> QED BY <3>1, <3>2
  <2>3. CASE SrvPush \/ \E kind \in Noise : SrvNoise(kind)
    BY <2>3 DEF SrvPush, SrvNoise, NetOK
  <2> QED BY <2>1, <2>2, <2>3 DEF Environment
<1> QED BY <1>2, <1>3, <1>4, <1>5 DEF NetOK

(***************************************************************************)
(* All steps together.                                                     *)
(***************************************************************************)
LEMMA NextType == ASSUME TypeInv, [Next]_vars PROVE TypeInv'
<1> USE ThreadFacts
<1>1. CASE RxStep \/ RxClosed
  BY <1>1, WriteType, CloseType, RxReadType, RxOwnType, RxPutType DEF RxStep
<1>2. CASE HbStep
  BY <1>2, WriteType, CloseType, HbType DEF HbStep
<1>3. CASE \E c \in Callers : CallerStep(c) \/ AppCall(c)
  BY <1>3, WriteType, CloseType, TakeType, WaitType, CallType DEF CallerStep
<1>4. CASE Environment
  BY <1>4, EnvironmentType
<1>5. CASE UNCHANGED vars
  BY <1>5 DEF vars, lockVars, closeVars, netVars, queueVars, callVars, TypeInv, TypeOK,
     ThreadsOK, CloseOK, NetOK, QueuesOK, CallsOK, EnvOK, HandHeld
<1> QED BY <1>1, <1>2, <1>3, <1>4, <1>5 DEF Next

LEMMA TypeInvariant == Spec => []TypeInv
BY InitTypeInv, NextType, PTL DEF Spec

\* Every variable keeps a value of its kind, and neither queue outgrows its
\* maxsize, for any number of callers, bounds and answers.
THEOREM TypeCorrect == Spec => []TypeOK
BY TypeInvariant, PTL DEF TypeInv

(***************************************************************************)
(* The error of a call that ends because the client closed.  The invariant *)
(* is inductive: _close_error changes only while _done is clear, and no    *)
(* call has ended that way then.                                           *)
(***************************************************************************)
LEMMA CauseInit == Init => ClosedErrorIsFirstCause
BY DEF Init, ClosedErrorIsFirstCause

LEMMA CauseClose ==
  ASSUME TypeOK, ClosedErrorIsFirstCause, NEW t \in Threads, Close(t)
  PROVE  ClosedErrorIsFirstCause'
<1> USE ThreadFacts DEF ClosedErrorIsFirstCause, ClosedError
<1>1. CASE CloseEnter(t)
  <2>1. CASE done
    BY <1>1, <2>1 DEF CloseEnter, LeaveClose, Return, Goto, TypeOK, CallsOK
  <2>2. CASE ~done
    BY <1>1, <2>2 DEF CloseEnter
  <2> QED BY <2>1, <2>2
<1>2. CASE CloseSetDone(t)
  BY <1>2 DEF CloseSetDone, callVars
<1>3. CASE CloseSocket(t)
  BY <1>3 DEF CloseSocket, LeaveClose, Return, Goto, TypeOK, CallsOK
<1> QED BY <1>1, <1>2, <1>3 DEF Close

LEMMA CauseCaller ==
  ASSUME TypeOK, ClosedErrorIsFirstCause, NEW c \in Callers, CallerStep(c) \/ AppCall(c)
  PROVE  ClosedErrorIsFirstCause'
<1> USE ThreadFacts DEF ClosedErrorIsFirstCause, ClosedError
<1>1. CASE Close(c)
  BY <1>1, CauseClose
<1>2. CASE Write(c)
  BY <1>2 DEF Write, AcquireWrite, SendHalf, SendFails, Return, closeVars, callVars,
     TypeOK, CallsOK
<1>3. CASE TakePush(c) \/ TakeAck(c)
  BY <1>3 DEF TakePush, TakeAck, Return, closeVars, TypeOK, CallsOK
<1>4. CASE QueueEmpty(c) \/ TimeOut(c)
  BY <1>4 DEF QueueEmpty, TimeOut, GiveUp, Return, closeVars, callVars, TypeOK, CallsOK
<1>5. CASE IsDone(c)
  BY <1>5 DEF IsDone, GiveUp, Return, closeVars, TypeOK, CallsOK
<1>6. CASE AppCall(c)
  BY <1>6 DEF AppCall, CallSetAlias, CallWait, CallClose, Call, closeVars, TypeOK, CallsOK
<1> QED BY <1>1, <1>2, <1>3, <1>4, <1>5, <1>6 DEF CallerStep

\* Whatever else happens leaves the cause and the results alone.
LEMMA CauseRest ==
  ASSUME TypeOK, ClosedErrorIsFirstCause,
         \/ RxStep \/ RxClosed \/ HbStep \/ Environment \/ UNCHANGED vars
  PROVE  ClosedErrorIsFirstCause'
<1> USE ThreadFacts
<1>1. CASE Close(Rx) \/ Close(Hb)
  BY <1>1, CauseClose
<1>2. CASE UNCHANGED <<done, closeError, result>>
  BY <1>2 DEF ClosedErrorIsFirstCause, ClosedError
<1>3. CASE Write(Rx) \/ Write(Hb)
  BY <1>2, <1>3 DEF Write, AcquireWrite, SendHalf, SendFails, closeVars, callVars
<1>4. CASE RxCheck \/ RxPush \/ RxAck \/ RxJunk
  BY <1>2, <1>4 DEF RxCheck, RxPush, RxAck, RxJunk, RxRecv, closeVars, callVars
<1>5. CASE RxShort \/ RxEof \/ RxHandover \/ RxPut \/ RxClosed
  BY <1>2, <1>5 DEF RxShort, RxRecv, RxEof, RxHandover, RxPut, RxClosed, closeVars, callVars
<1>6. CASE HbFire \/ HbStop
  BY <1>2, <1>6 DEF HbFire, HbStop, closeVars, callVars
<1>7. CASE Environment
  BY <1>2, <1>7 DEF Environment, SrvNoise, SrvPush, SrvRead, PeerFin, PeerReset, PeerGone,
     closeVars, callVars
<1>8. CASE UNCHANGED vars
  BY <1>2, <1>8 DEF vars, closeVars, callVars
<1> QED BY <1>1, <1>3, <1>4, <1>5, <1>6, <1>7, <1>8 DEF RxStep, HbStep

\* A call that ends because the client closed reports what closed it first,
\* whatever the threads that race to close it.
THEOREM FirstCauseReported == Spec => []ClosedErrorIsFirstCause
<1>1. TypeOK /\ ClosedErrorIsFirstCause /\ [Next]_vars => ClosedErrorIsFirstCause'
  BY CauseCaller, CauseRest DEF Next
<1> QED BY CauseInit, TypeCorrect, <1>1, PTL DEF Spec

(***************************************************************************)
(* Request ids.  Distinctness is not inductive alone: the next id must also*)
(* be above those in use.                                                  *)
(***************************************************************************)
Writing(t) == pc[t] \in {"lock", "send", "flush"}
RidsBelow == \A t \in Threads : req[t].rid <= rid
RidInv == RidsBelow /\ RidsUnique

LEMMA RidInit == Init => RidInv
BY DEF Init, RidInv, RidsBelow, RidsUnique, NoRequest

\* A thread that takes a new id keeps all of them distinct.
LEMMA RidEncode ==
  ASSUME TypeOK, RidInv, NEW t \in Threads, NEW kind, Encode(t, kind)
  PROVE  RidInv'
<1> USE DEF Encode, Goto
<1>1. /\ rid \in Nat /\ \A u \in Threads : req[u].rid \in Nat
      /\ rid' = rid + 1 /\ req'[t].rid = rid + 1
      /\ \A u \in Threads \ {t} : req'[u] = req[u] /\ pc'[u] = pc[u]
  BY DEF TypeOK, ThreadsOK, Requests
<1>2. \A u \in Threads \ {t} : req'[u].rid <= rid
  BY <1>1 DEF RidInv, RidsBelow
<1>3. RidsBelow'
  <2> SUFFICES ASSUME NEW u \in Threads PROVE req'[u].rid <= rid'
    BY DEF RidsBelow
  <2>1. CASE u = t
    BY <1>1, <2>1
  <2>2. CASE u # t
    BY <1>1, <1>2, <2>2
  <2> QED BY <2>1, <2>2
<1>4. RidsUnique'
  <2> SUFFICES ASSUME NEW u \in Threads, NEW v \in Threads, u # v,
                      {pc'[u], pc'[v]} \subseteq {"lock", "send", "flush"}
               PROVE  req'[u].rid # req'[v].rid
    BY DEF RidsUnique
  <2>1. CASE u = t \/ v = t
    BY <1>1, <1>2, <2>1
  <2>2. CASE u # t /\ v # t
    BY <1>1, <2>2 DEF RidInv, RidsUnique
  <2> QED BY <2>1, <2>2
<1> QED BY <1>3, <1>4 DEF RidInv

\* Whatever moves no thread into _write and changes the requests only of
\* threads that are not in it keeps them distinct as well.
LEMMA RidKeep ==
  ASSUME TypeOK, RidInv, rid' = rid,
         \A t \in Threads :
           /\ Writing(t)' => Writing(t) /\ req'[t] = req[t]
           /\ req'[t] = req[t] \/ req'[t] = NoRequest
  PROVE  RidInv'
<1>1. \A t \in Threads : req'[t].rid <= rid
  BY DEF RidInv, RidsBelow, NoRequest, TypeOK, ThreadsOK
<1>2. RidsBelow'
  BY <1>1 DEF RidsBelow
<1>3. RidsUnique'
  BY DEF RidInv, RidsUnique, Writing
<1> QED BY <1>2, <1>3 DEF RidInv

LEMMA RidWrite ==
  ASSUME TypeOK, RidInv, NEW t \in Threads, Write(t) PROVE RidInv'
<1> USE ThreadFacts
<1>1. CASE AcquireWrite(t)
  BY <1>1, RidKeep DEF AcquireWrite, Goto, Writing, TypeOK, ThreadsOK
<1>2. CASE SendHalf(t)
  BY <1>2, RidKeep DEF SendHalf, Sent, AfterSend, Goto, Writing, TypeOK, ThreadsOK
<1>3. CASE SendFails(t)
  BY <1>3, RidKeep DEF SendFails, Return, Goto, Writing, TypeOK, ThreadsOK
<1> QED BY <1>1, <1>2, <1>3 DEF Write

LEMMA RidClose ==
  ASSUME TypeOK, RidInv, NEW t \in Threads, Close(t) PROVE RidInv'
<1>1. CASE CloseEnter(t)
  BY <1>1, RidKeep DEF CloseEnter, LeaveClose, Return, Goto, Writing, TypeOK, ThreadsOK
<1>2. CASE CloseSetDone(t)
  BY <1>2, RidKeep DEF CloseSetDone, Goto, Writing, TypeOK, ThreadsOK
<1>3. CASE CloseSocket(t)
  BY <1>3, RidKeep DEF CloseSocket, LeaveClose, Return, Goto, Writing, TypeOK, ThreadsOK
<1> QED BY <1>1, <1>2, <1>3 DEF Close

LEMMA RidReceiver == ASSUME TypeOK, RidInv, RxStep \/ RxClosed PROVE RidInv'
<1> USE ThreadFacts
<1>1. CASE RxPush
  BY <1>1, RidEncode DEF RxPush
<1>2. CASE RxCheck \/ RxHandover \/ RxPut
  BY <1>2, RidKeep DEF RxCheck, RxHandover, RxPut, Goto, Writing, TypeOK, ThreadsOK
<1>3. CASE RxAck \/ RxJunk
  BY <1>3, RidKeep DEF RxAck, RxJunk, Goto, Writing, TypeOK, ThreadsOK
<1>4. CASE RxShort \/ RxEof \/ RxClosed
  BY <1>4, RidKeep DEF RxShort, RxEof, RxClosed, RxFail, Goto, Writing, TypeOK, ThreadsOK
<1> QED BY <1>1, <1>2, <1>3, <1>4, RidWrite, RidClose DEF RxStep

LEMMA RidCaller ==
  ASSUME TypeOK, RidInv, NEW c \in Callers, CallerStep(c) \/ AppCall(c) PROVE RidInv'
<1> USE ThreadFacts
<1>1. CASE TakePush(c) \/ TakeAck(c)
  BY <1>1, RidKeep DEF TakePush, TakeAck, Return, Goto, Writing, TypeOK, ThreadsOK
<1>2. CASE QueueEmpty(c) \/ IsDone(c) \/ TimeOut(c)
  BY <1>2, RidKeep DEF QueueEmpty, IsDone, TimeOut, GiveUp, Return, Goto, Writing,
     TypeOK, ThreadsOK
<1>3. CASE CallSetAlias(c)
  BY <1>3, RidEncode DEF CallSetAlias
<1>4. CASE CallWait(c) \/ CallClose(c)
  BY <1>4, RidKeep DEF CallWait, CallClose, Goto, Writing, TypeOK, ThreadsOK
<1> QED BY <1>1, <1>2, <1>3, <1>4, RidWrite, RidClose DEF CallerStep, AppCall

LEMMA RidRest ==
  ASSUME TypeOK, RidInv, HbStep \/ Environment \/ UNCHANGED vars PROVE RidInv'
<1> USE ThreadFacts
<1>1. CASE HbFire
  BY <1>1, RidEncode DEF HbFire
<1>2. CASE HbStop
  BY <1>2, RidKeep DEF HbStop, Goto, Writing, TypeOK, ThreadsOK
<1>3. CASE UNCHANGED <<pc, req, rid>>
  BY <1>3 DEF RidInv, RidsBelow, RidsUnique
<1>4. CASE Environment
  BY <1>3, <1>4 DEF Environment, SrvNoise, SrvPush, SrvRead, PeerFin, PeerReset, PeerGone
<1>5. CASE UNCHANGED vars
  BY <1>3, <1>5 DEF vars
<1> QED BY <1>1, <1>2, <1>4, <1>5, RidWrite, RidClose DEF HbStep

\* No two requests under way ever carry the same id, for any number of threads.
THEOREM RidsDistinct == Spec => []RidsUnique
<1>1. TypeOK /\ RidInv /\ [Next]_vars => RidInv'
  BY RidReceiver, RidCaller, RidRest DEF Next
<1>2. RidInv => RidsUnique
  BY DEF RidInv
<1> QED BY RidInit, TypeCorrect, <1>1, <1>2, PTL DEF Spec

(***************************************************************************)
(* Frames stay whole for any number of writers and any room in the socket, *)
(* and a close cuts none.  The argument: only the holder of _write_lock is *)
(* inside sendall; the halves the server has not read are an even number   *)
(* but while that thread is between its two halves, and the last one is    *)
(* then its own.                                                           *)
(***************************************************************************)
\* The holder of _write_lock is the thread inside sendall.
LockHeld == \A t \in Threads : pc[t] \in {"send", "flush"} <=> writeLock = t

\* A request under way has an id, which tells its frame from no frame at all.
IdsPositive == \A t \in Threads : pc[t] \in {"lock", "send", "flush"} => req[t].rid > 0

\* Has the server read the first half of a frame only, and how many halves of
\* frames are there that it has not read to the end.
Mid == IF srvHalf = 0 THEN 0 ELSE 1
Count == Len(wire) + Mid

\* The frame that the half before wire[i] belongs to.
Before(i) == IF i = 1 THEN srvHalf ELSE wire[i - 1].rid

WireWhole ==
  \A i \in 1..Len(wire) :
    /\ (i + Mid) % 2 = 1 => wire[i].half = "send" /\ wire[i].rid > 0
    /\ (i + Mid) % 2 = 0 => wire[i].half = "flush" /\ wire[i].rid = Before(i)

\* A frame is cut exactly while some thread is between its halves.
CutByWriter ==
  /\ \A t \in Threads : pc[t] = "flush" =>
       Count % 2 = 1 /\ req[t].rid = Before(Len(wire) + 1)
  /\ Count % 2 = 1 => \E t \in Threads : pc[t] = "flush"

\* After the socket is closed nobody is between the halves of a frame.
NoneCut == conn = "closed" => \A t \in Threads : pc[t] # "flush"

FrameInv ==
  /\ LockHeld /\ IdsPositive /\ WireWhole
  /\ peer = "up" => CutByWriter /\ NoneCut
  /\ peer # "up" => wire = <<>> /\ srvHalf = 0

LEMMA Parity == \A n \in Nat : n % 2 \in {0, 1} /\ (n + 1) % 2 = 1 - (n % 2)
OBVIOUS

LEMMA FrameInit == Init => FrameInv
<1> SUFFICES ASSUME Init PROVE FrameInv
  OBVIOUS
<1>1. LockHeld /\ IdsPositive
  BY ThreadFacts DEF Init, LockHeld, IdsPositive, Threads
<1>2. wire = <<>> /\ srvHalf = 0 /\ Len(wire) = 0 /\ Count = 0
  BY DEF Init, Count, Mid
<1>3. WireWhole
  BY <1>2 DEF WireWhole
<1>4. CutByWriter /\ NoneCut
  BY <1>2 DEF Init, CutByWriter, NoneCut
<1> QED BY <1>1, <1>2, <1>3, <1>4 DEF FrameInv

(***************************************************************************)
(* Steps that do not touch the wire.                                       *)
(***************************************************************************)
LEMMA FrameKeep ==
  ASSUME FrameInv, LockHeld', IdsPositive',
         UNCHANGED <<wire, srvHalf, peer>>,
         \A t \in Threads : /\ pc'[t] = "flush" <=> pc[t] = "flush"
                            /\ pc[t] = "flush" => req'[t] = req[t],
         conn' = conn \/ \A t \in Threads : pc[t] # "flush"
  PROVE  FrameInv'
<1>1. Mid' = Mid /\ Count' = Count /\ WireWhole'
  BY DEF FrameInv, Mid, Count, WireWhole, Before
<1>2. ASSUME peer = "up" PROVE CutByWriter' /\ NoneCut'
  BY <1>1, <1>2 DEF FrameInv, CutByWriter, NoneCut, Before
<1> QED BY <1>1, <1>2 DEF FrameInv

\* Other threads do not enter or leave _write.
LEMMA FrameOther ==
  ASSUME FrameInv, UNCHANGED <<writeLock, wire, srvHalf, peer, conn>>,
         \A t \in Threads :
           /\ pc'[t] \in {"send", "flush"} \/ pc[t] \in {"send", "flush"} => pc'[t] = pc[t]
           /\ pc'[t] \in {"send", "flush"} => req'[t] = req[t]
           /\ pc'[t] = "lock" => req'[t].rid > 0
  PROVE  FrameInv'
<1>1. LockHeld' /\ IdsPositive'
  BY DEF FrameInv, LockHeld, IdsPositive
<1> QED BY <1>1, FrameKeep

(***************************************************************************)
(* Writing.                                                                *)
(***************************************************************************)
LEMMA FrameAcquire ==
  ASSUME TypeInv, FrameInv, NEW t \in Threads, AcquireWrite(t) PROVE FrameInv'
<1>1. /\ pc[t] = "lock" /\ pc' = [pc EXCEPT ![t] = "send"] /\ req' = req
      /\ writeLock = Nobody /\ writeLock' = t
      /\ UNCHANGED <<wire, srvHalf, peer, conn>>
  BY DEF AcquireWrite, Goto, netVars, closeVars
<1>2. pc \in [Threads -> Lines] /\ Nobody \notin Threads
  BY ThreadFacts DEF TypeInv, TypeOK, ThreadsOK, Threads
<1>3. LockHeld'
  BY <1>1, <1>2 DEF FrameInv, LockHeld
<1>4. IdsPositive'
  BY <1>1, <1>2 DEF FrameInv, IdsPositive
<1> QED BY <1>1, <1>2, <1>3, <1>4, FrameKeep

\* The first half: the wire holds whole frames, and t starts a new one.
LEMMA FrameFirst ==
  ASSUME TypeInv, FrameInv, NEW t \in Threads, SendHalf(t), pc[t] = "send", peer = "up"
  PROVE  FrameInv'
<1> DEFINE h == [half |-> "send", kind |-> req[t].kind, rid |-> req[t].rid]
<1>1. /\ pc' = [pc EXCEPT ![t] = "flush"] /\ wire' = Append(wire, h) /\ conn = "open"
      /\ UNCHANGED <<req, writeLock, srvHalf, peer, conn>>
  BY DEF SendHalf, Goto, closeVars
<1>2. pc \in [Threads -> Lines] /\ wire \in Seq(Halves) /\ h \in Halves /\ srvHalf \in Nat
  BY DEF TypeInv, TypeOK, ThreadsOK, NetOK, Requests, Halves
<1>3. /\ Len(wire) \in Nat /\ Len(wire') = Len(wire) + 1 /\ wire'[Len(wire) + 1] = h
      /\ \A i \in 1..Len(wire) : wire'[i] = wire[i]
  BY <1>1, <1>2, AppendProperties, LenProperties
<1>4. Mid' = Mid /\ Mid \in Nat /\ Count' = Count + 1 /\ Count \in Nat
  BY <1>1, <1>3 DEF Mid, Count
<1>5. writeLock = t /\ \A u \in Threads : pc[u] = "flush" => u = t
  BY DEF FrameInv, LockHeld
<1>6. Count % 2 = 0 /\ (Count + 1) % 2 = 1
  BY <1>4, <1>5, Parity DEF FrameInv, CutByWriter
<1>7. LockHeld' /\ IdsPositive' /\ NoneCut'
  BY <1>1, <1>2 DEF FrameInv, LockHeld, IdsPositive, NoneCut
<1>8. WireWhole'
  <2> SUFFICES ASSUME NEW i \in 1..Len(wire')
               PROVE  /\ (i + Mid') % 2 = 1 => wire'[i].half = "send" /\ wire'[i].rid > 0
                      /\ (i + Mid') % 2 = 0 =>
                           wire'[i].half = "flush" /\ wire'[i].rid = Before(i)'
    BY DEF WireWhole
  <2>1. CASE i \in 1..Len(wire)
    <3>1. Before(i)' = Before(i)
      BY <1>1, <1>3, <2>1 DEF Before
    <3> QED BY <1>3, <1>4, <2>1, <3>1 DEF FrameInv, WireWhole
  <2>2. CASE i = Len(wire) + 1
    <3>1. i + Mid' = Count + 1
      BY <1>3, <1>4, <2>2 DEF Count
    <3>2. wire'[i].half = "send" /\ wire'[i].rid = req[t].rid /\ req[t].rid > 0
      BY <1>3, <2>2 DEF FrameInv, IdsPositive
    <3> QED BY <1>6, <3>1, <3>2
  <2> QED BY <1>3, <2>1, <2>2
<1>9. CutByWriter'
  <2>1. Before(Len(wire) + 1)' = Before(Len(wire) + 1)'
    OBVIOUS
  <2>2. (Before(Len(wire) + 1))' = req[t].rid
    <3>1. Len(wire') + 1 # 1 /\ Len(wire') + 1 - 1 = Len(wire) + 1
      BY <1>3
    <3> QED BY <1>3, <3>1 DEF Before
  <2>3. pc'[t] = "flush" /\ \A u \in Threads : pc'[u] = "flush" => u = t
    BY <1>1, <1>2, <1>5
  <2> QED BY <1>1, <1>4, <1>6, <2>2, <2>3 DEF CutByWriter
<1> QED BY <1>1, <1>7, <1>8, <1>9 DEF FrameInv

\* The second half completes the frame that the first one started.
LEMMA FrameSecond ==
  ASSUME TypeInv, FrameInv, NEW t \in Threads, SendHalf(t), pc[t] = "flush", peer = "up"
  PROVE  FrameInv'
<1> DEFINE h == [half |-> "flush", kind |-> req[t].kind, rid |-> req[t].rid]
<1>1. /\ wire' = Append(wire, h) /\ writeLock' = Nobody /\ UNCHANGED <<srvHalf, peer, conn>>
      /\ \A u \in Threads \ {t} : pc'[u] = pc[u] /\ req'[u] = req[u]
      /\ pc'[t] \notin {"lock", "send", "flush"}
  BY DEF SendHalf, Sent, AfterSend, Goto, closeVars, TypeInv, TypeOK, ThreadsOK
<1>2. wire \in Seq(Halves) /\ h \in Halves /\ srvHalf \in Nat
  BY DEF TypeInv, TypeOK, ThreadsOK, NetOK, Requests, Halves
<1>3. /\ Len(wire) \in Nat /\ Len(wire') = Len(wire) + 1 /\ wire'[Len(wire) + 1] = h
      /\ \A i \in 1..Len(wire) : wire'[i] = wire[i]
  BY <1>1, <1>2, AppendProperties, LenProperties
<1>4. Mid' = Mid /\ Mid \in Nat /\ Count' = Count + 1 /\ Count \in Nat
  BY <1>1, <1>3 DEF Mid, Count
<1>5. writeLock = t /\ \A u \in Threads \ {t} : pc[u] \notin {"send", "flush"}
  BY DEF FrameInv, LockHeld
<1>6. /\ Count % 2 = 1 /\ (Count + 1) % 2 = 0
      /\ req[t].rid = Before(Len(wire) + 1)
  BY <1>4, Parity DEF FrameInv, CutByWriter
<1>7. \A u \in Threads : pc'[u] \notin {"send", "flush"}
  BY <1>1, <1>5
<1>8. LockHeld' /\ IdsPositive' /\ NoneCut'
  <2>1. Nobody \notin Threads
    BY ThreadFacts DEF Threads
  <2>2. LockHeld' /\ NoneCut'
    BY <1>1, <1>7, <2>1 DEF LockHeld, NoneCut
  <2>3. IdsPositive'
    BY <1>1 DEF FrameInv, IdsPositive
  <2> QED BY <2>2, <2>3
<1>9. WireWhole'
  <2> SUFFICES ASSUME NEW i \in 1..Len(wire')
               PROVE  /\ (i + Mid') % 2 = 1 => wire'[i].half = "send" /\ wire'[i].rid > 0
                      /\ (i + Mid') % 2 = 0 =>
                           wire'[i].half = "flush" /\ wire'[i].rid = Before(i)'
    BY DEF WireWhole
  <2>1. Before(i)' = Before(i)
    BY <1>1, <1>3 DEF Before
  <2>2. CASE i \in 1..Len(wire)
    BY <1>3, <1>4, <2>1, <2>2 DEF FrameInv, WireWhole
  <2>3. CASE i = Len(wire) + 1
    <3>1. i + Mid' = Count + 1
      BY <1>3, <1>4, <2>3 DEF Count
    <3>2. wire'[i].half = "flush" /\ wire'[i].rid = Before(i)
      BY <1>3, <1>6, <2>3
    <3> QED BY <1>6, <2>1, <3>1, <3>2
  <2> QED BY <1>3, <2>2, <2>3
<1>10. CutByWriter'
  BY <1>4, <1>6, <1>7 DEF CutByWriter
<1> QED BY <1>1, <1>8, <1>9, <1>10 DEF FrameInv

\* Without a peer there is no wire: only the lock and the ids count.
LEMMA FrameGone ==
  ASSUME FrameInv, LockHeld', IdsPositive', peer' # "up", wire' = <<>>, srvHalf' = 0
  PROVE  FrameInv'
<1>1. WireWhole'
  BY DEF WireWhole
<1> QED BY <1>1 DEF FrameInv

LEMMA FrameWrite ==
  ASSUME TypeInv, FrameInv, NEW t \in Threads, Write(t) PROVE FrameInv'
<1>1. Nobody \notin Threads
  BY ThreadFacts DEF Threads
<1>2. CASE SendHalf(t) /\ peer # "up"
  <2>1. peer' # "up" /\ wire' = <<>> /\ srvHalf' = 0
    BY <1>2 DEF SendHalf, FrameInv
  <2>2. CASE pc[t] = "send"
    <3>1. pc' = [pc EXCEPT ![t] = "flush"] /\ UNCHANGED <<req, writeLock>>
      BY <1>2, <2>2 DEF SendHalf, Goto
    <3>2. LockHeld' /\ IdsPositive'
      BY <2>2, <3>1 DEF FrameInv, LockHeld, IdsPositive, TypeInv, TypeOK, ThreadsOK
    <3> QED BY <2>1, <3>2, FrameGone
  <2>3. CASE pc[t] # "send"
    <3>1. /\ writeLock' = Nobody /\ pc[t] = "flush"
          /\ \A u \in Threads \ {t} : pc'[u] = pc[u] /\ req'[u] = req[u]
          /\ pc'[t] \notin {"lock", "send", "flush"}
      BY <1>2, <2>3 DEF SendHalf, Sent, AfterSend, Goto, TypeInv, TypeOK, ThreadsOK
    <3>2. LockHeld' /\ IdsPositive'
      BY <1>1, <3>1 DEF FrameInv, LockHeld, IdsPositive
    <3> QED BY <2>1, <3>2, FrameGone
  <2> QED BY <2>2, <2>3
<1>3. CASE SendFails(t)
  <2>1. /\ writeLock' = Nobody /\ pc[t] \in {"send", "flush"}
        /\ \A u \in Threads \ {t} : pc'[u] = pc[u] /\ req'[u] = req[u]
        /\ pc'[t] \notin {"lock", "send", "flush"}
        /\ UNCHANGED <<wire, srvHalf, peer, conn>>
    BY <1>3 DEF SendFails, Return, Goto, netVars, closeVars, TypeInv, TypeOK, ThreadsOK
  <2>2. LockHeld' /\ IdsPositive'
    BY <1>1, <2>1 DEF FrameInv, LockHeld, IdsPositive
  <2>3. CASE peer = "up"
    <3>1. \A u \in Threads : pc[u] # "flush"
      BY <1>3, <2>3 DEF SendFails, FrameInv, NoneCut, TypeInv, TypeOK, CloseOK
    <3>2. \A u \in Threads : pc'[u] # "flush"
      BY <2>1, <3>1
    <3> QED BY <2>1, <2>2, <3>1, <3>2, FrameKeep
  <2>4. CASE peer # "up"
    BY <2>1, <2>2, <2>4, FrameGone DEF FrameInv
  <2> QED BY <2>3, <2>4
<1>4. CASE SendHalf(t) /\ peer = "up"
  BY <1>4, FrameFirst, FrameSecond DEF SendHalf
<1> QED BY <1>2, <1>3, <1>4, FrameAcquire DEF Write

\* The socket is closed only while nobody holds _write_lock.
LEMMA FrameClose ==
  ASSUME TypeInv, FrameInv, NEW t \in Threads, Close(t) PROVE FrameInv'
<1> USE ThreadFacts
<1>1. CASE CloseEnter(t)
  BY <1>1, FrameOther DEF CloseEnter, LeaveClose, Return, Goto, netVars, FrameInv,
     IdsPositive, TypeInv, TypeOK, ThreadsOK
<1>2. CASE CloseSetDone(t)
  BY <1>2, FrameOther DEF CloseSetDone, Goto, lockVars, netVars, FrameInv, IdsPositive,
     TypeInv, TypeOK, ThreadsOK
<1>3. CASE CloseSocket(t)
  <2>1. /\ writeLock = Nobody /\ pc[t] = "shut"
        /\ pc' = [pc EXCEPT ![t] = pc'[t]] /\ pc'[t] \in {"idle", "dead"}
        /\ UNCHANGED <<req, writeLock, wire, srvHalf, peer>>
    BY <1>3 DEF CloseSocket, LeaveClose, Return, Goto, netVars, TypeInv, TypeOK, ThreadsOK
  <2>2. \A u \in Threads : pc[u] \notin {"send", "flush"}
    BY <2>1 DEF FrameInv, LockHeld, Threads
  <2>3. LockHeld' /\ IdsPositive'
    BY <2>1 DEF FrameInv, LockHeld, IdsPositive, TypeInv, TypeOK, ThreadsOK
  <2> QED BY <2>1, <2>2, <2>3, FrameKeep DEF TypeInv, TypeOK, ThreadsOK
<1> QED BY <1>1, <1>2, <1>3 DEF Close

(***************************************************************************)
(* Reading: the server takes the first half off the wire.                  *)
(***************************************************************************)
LEMMA FrameRead == ASSUME TypeInv, FrameInv, SrvRead PROVE FrameInv'
<1> DEFINE n == Len(wire)
<1>1. /\ peer = "up" /\ wire # <<>> /\ wire' = Tail(wire)
      /\ srvHalf' = IF Head(wire).half = "send" THEN Head(wire).rid ELSE 0
      /\ UNCHANGED <<pc, req, writeLock, peer, conn>>
  BY DEF SrvRead, lockVars, closeVars
<1>2. wire \in Seq(Halves) /\ srvHalf \in Nat
  BY DEF TypeInv, TypeOK, NetOK
<1>3. /\ n \in Nat /\ n >= 1 /\ Len(wire') = n - 1 /\ Head(wire) = wire[1]
      /\ \A i \in 1..n - 1 : wire'[i] = wire[i + 1]
  BY <1>1, <1>2, HeadTailProperties, EmptySeq, LenProperties
<1>4. LockHeld' /\ IdsPositive' /\ NoneCut'
  BY <1>1 DEF FrameInv, LockHeld, IdsPositive, NoneCut
\* A first half is read: the server is in the middle of a frame.
<1>5. CASE srvHalf = 0
  <2>1. Mid = 0 /\ Count = n /\ wire[1].half = "send" /\ wire[1].rid > 0
    BY <1>3, <1>5 DEF Mid, Count, FrameInv, WireWhole
  <2>2. srvHalf' = wire[1].rid /\ Mid' = 1 /\ Count' = n
    <3>1. srvHalf' = wire[1].rid
      BY <1>1, <1>3, <2>1
    <3>2. Mid' = 1
      BY <2>1, <3>1 DEF Mid
    <3>3. Count' = Len(wire') + 1
      BY <3>2 DEF Count
    <3> QED BY <1>3, <3>1, <3>2, <3>3
  <2>3. \A i \in 1..n : Before(i)' = Before(i + 1)
    BY <1>3, <2>2 DEF Before
  <2>4. WireWhole'
    <3> SUFFICES ASSUME NEW i \in 1..n - 1
                 PROVE  /\ (i + Mid') % 2 = 1 => wire'[i].half = "send" /\ wire'[i].rid > 0
                        /\ (i + Mid') % 2 = 0 =>
                             wire'[i].half = "flush" /\ wire'[i].rid = Before(i)'
      BY <1>3 DEF WireWhole
    <3>1. i + 1 \in 1..n /\ i + Mid' = i + 1 + Mid /\ wire'[i] = wire[i + 1]
      BY <1>3, <2>1, <2>2
    <3> QED BY <1>3, <2>3, <3>1 DEF FrameInv, WireWhole
  <2>5. CutByWriter'
    <3>1. (Before(Len(wire) + 1))' = Before(n + 1)
      BY <1>3, <2>2 DEF Before
    <3> QED BY <1>1, <2>1, <2>2, <3>1 DEF FrameInv, CutByWriter
  <2> QED BY <1>1, <1>4, <2>4, <2>5 DEF FrameInv
\* A second half is read: the server is between frames.
<1>6. CASE srvHalf # 0
  <2>1. Mid = 1 /\ Count = n + 1 /\ wire[1].half = "flush"
    BY <1>3, <1>6 DEF Mid, Count, FrameInv, WireWhole
  <2>2. srvHalf' = 0 /\ Mid' = 0 /\ Count' = n - 1
    <3>1. srvHalf' = 0
      BY <1>1, <1>3, <2>1
    <3>2. Mid' = 0
      BY <3>1 DEF Mid
    <3>3. Count' = Len(wire') + 0
      BY <3>2 DEF Count
    <3> QED BY <1>3, <3>1, <3>2, <3>3
  <2>3. \A i \in 2..n : Before(i)' = Before(i + 1)
    BY <1>3 DEF Before
  <2>4. WireWhole'
    <3> SUFFICES ASSUME NEW i \in 1..n - 1
                 PROVE  /\ (i + Mid') % 2 = 1 => wire'[i].half = "send" /\ wire'[i].rid > 0
                        /\ (i + Mid') % 2 = 0 =>
                             wire'[i].half = "flush" /\ wire'[i].rid = Before(i)'
      BY <1>3 DEF WireWhole
    <3>1. i + 1 \in 1..n /\ wire'[i] = wire[i + 1]
      BY <1>3
    <3>2. (i + Mid') % 2 = (i + 1 + Mid) % 2
      BY <2>1, <2>2, Parity
    <3>3. (i + Mid') % 2 = 0 => i >= 2
      BY <2>2
    <3> QED BY <1>3, <2>3, <3>1, <3>2, <3>3 DEF FrameInv, WireWhole
  <2>5. Count' % 2 = Count % 2
    BY <1>3, <2>1, <2>2
  <2>6. Count' % 2 = 1 => (Before(Len(wire) + 1))' = Before(n + 1)
    <3>1. Count' % 2 = 1 => n >= 2
      BY <1>3, <2>2
    <3> QED BY <1>3, <3>1 DEF Before
  <2>7. CutByWriter'
    BY <1>1, <2>5, <2>6 DEF FrameInv, CutByWriter
  <2> QED BY <1>1, <1>4, <2>4, <2>7 DEF FrameInv
<1> QED BY <1>5, <1>6

(***************************************************************************)
(* The other steps.                                                        *)
(***************************************************************************)
LEMMA FrameEncode ==
  ASSUME TypeInv, FrameInv, NEW t \in Threads, NEW kind, Encode(t, kind),
         pc[t] \notin {"send", "flush"}, UNCHANGED <<writeLock, wire, srvHalf, peer, conn>>
  PROVE  FrameInv'
<1>1. pc' = [pc EXCEPT ![t] = "lock"] /\ rid \in Nat
      /\ req' = [req EXCEPT ![t] = [kind |-> kind, rid |-> rid + 1]]
  BY DEF Encode, Goto, TypeInv, TypeOK, ThreadsOK
<1>2. pc \in [Threads -> Lines] /\ req \in [Threads -> Requests]
  BY DEF TypeInv, TypeOK, ThreadsOK
<1>3. \A u \in Threads \ {t} : pc'[u] = pc[u] /\ req'[u] = req[u]
  BY <1>1, <1>2
<1>4. pc'[t] = "lock" /\ req'[t].rid = rid + 1 /\ rid + 1 > 0
  BY <1>1, <1>2
<1> QED BY <1>3, <1>4, FrameOther DEF FrameInv, IdsPositive

LEMMA FrameReceiver == ASSUME TypeInv, FrameInv, RxStep \/ RxClosed PROVE FrameInv'
<1> USE ThreadFacts
<1>1. CASE RxPush
  BY <1>1, FrameEncode DEF RxPush, RxRecv, lockVars, closeVars
<1>2. CASE RxCheck \/ RxHandover \/ RxPut
  BY <1>2, FrameOther DEF RxCheck, RxHandover, RxPut, Goto, lockVars, netVars, closeVars,
     FrameInv, IdsPositive, TypeInv, TypeOK, ThreadsOK
<1>3. CASE RxAck \/ RxJunk \/ RxShort
  BY <1>3, FrameOther DEF RxAck, RxJunk, RxShort, RxRecv, RxFail, Goto, lockVars,
     closeVars, FrameInv, IdsPositive, TypeInv, TypeOK, ThreadsOK
<1>4. CASE RxEof \/ RxClosed
  BY <1>4, FrameOther DEF RxEof, RxClosed, RxFail, Goto, lockVars, netVars, closeVars,
     FrameInv, IdsPositive, TypeInv, TypeOK, ThreadsOK
<1> QED BY <1>1, <1>2, <1>3, <1>4, FrameWrite, FrameClose DEF RxStep

LEMMA FrameCaller ==
  ASSUME TypeInv, FrameInv, NEW c \in Callers, CallerStep(c) \/ AppCall(c) PROVE FrameInv'
<1> USE ThreadFacts
<1>1. CASE TakePush(c) \/ TakeAck(c)
  BY <1>1, FrameOther DEF TakePush, TakeAck, Return, Goto, lockVars, netVars, closeVars,
     FrameInv, IdsPositive, TypeInv, TypeOK, ThreadsOK
<1>2. CASE QueueEmpty(c) \/ IsDone(c) \/ TimeOut(c)
  BY <1>2, FrameOther DEF QueueEmpty, IsDone, TimeOut, GiveUp, Return, Goto, lockVars,
     netVars, closeVars, FrameInv, IdsPositive, TypeInv, TypeOK, ThreadsOK
<1>3. CASE CallSetAlias(c)
  BY <1>3, FrameEncode DEF CallSetAlias, Call, lockVars, netVars, closeVars
<1>4. CASE CallWait(c) \/ CallClose(c)
  BY <1>4, FrameOther DEF CallWait, CallClose, Call, Goto, lockVars, netVars, closeVars,
     FrameInv, IdsPositive, TypeInv, TypeOK, ThreadsOK
<1> QED BY <1>1, <1>2, <1>3, <1>4, FrameWrite, FrameClose DEF CallerStep, AppCall

LEMMA FrameRest ==
  ASSUME TypeInv, FrameInv, HbStep \/ Environment \/ UNCHANGED vars PROVE FrameInv'
<1> USE ThreadFacts
<1>1. CASE HbFire
  BY <1>1, FrameEncode DEF HbFire, lockVars, netVars, closeVars
<1>2. CASE HbStop
  BY <1>2, FrameOther DEF HbStop, Goto, lockVars, netVars, closeVars, FrameInv, IdsPositive,
     TypeInv, TypeOK, ThreadsOK
<1>3. CASE UNCHANGED <<pc, req, writeLock, wire, srvHalf, peer, conn>>
  BY <1>3, FrameOther DEF FrameInv, IdsPositive
<1>4. CASE SrvPush \/ \E kind \in Noise : SrvNoise(kind)
  BY <1>3, <1>4 DEF SrvPush, SrvNoise, lockVars, closeVars
<1>5. CASE PeerFin \/ PeerReset
  <2>1. UNCHANGED <<pc, req, writeLock>> /\ peer' # "up" /\ wire' = <<>> /\ srvHalf' = 0
    BY <1>5 DEF PeerFin, PeerReset, PeerGone, lockVars
  <2>2. LockHeld' /\ IdsPositive'
    BY <2>1 DEF FrameInv, LockHeld, IdsPositive
  <2> QED BY <2>1, <2>2, FrameGone
<1>6. CASE UNCHANGED vars
  BY <1>3, <1>6 DEF vars, lockVars, netVars, closeVars
<1> QED BY <1>1, <1>2, <1>4, <1>5, <1>6, FrameRead, FrameWrite, FrameClose
        DEF HbStep, Environment

LEMMA FrameInvariant == Spec => []FrameInv
<1>1. TypeInv /\ FrameInv /\ [Next]_vars => FrameInv'
  BY FrameReceiver, FrameCaller, FrameRest DEF Next
<1> QED BY FrameInit, TypeInvariant, <1>1, PTL DEF Spec

\* What the server has still to read, half by half.
LEMMA UnreadHalves ==
  ASSUME TypeInv
  PROVE  /\ Len(Unread) = Count
         /\ \A i \in 1..Len(wire) : Unread[i + Mid] = wire[i]
         /\ srvHalf # 0 => Unread[1].half = "send" /\ Unread[1].rid = srvHalf
<1>1. wire \in Seq(Halves) /\ srvHalf \in Nat /\ Len(wire) \in Nat
  BY LenProperties DEF TypeInv, TypeOK, NetOK
<1>2. CASE srvHalf = 0
  BY <1>1, <1>2 DEF Unread, Mid, Count
<1>3. CASE srvHalf # 0
  <2> DEFINE h == [half |-> "send", kind |-> "none", rid |-> srvHalf]
  <2>1. <<h>> \in Seq(Halves) /\ Len(<<h>>) = 1 /\ <<h>>[1] = h
    BY <1>1 DEF Halves
  <2>2. Unread = <<h>> \o wire /\ Mid = 1
    BY <1>3 DEF Unread, Mid
  <2>3. /\ Len(Unread) = 1 + Len(wire) /\ Unread[1] = h
        /\ \A i \in 1..Len(wire) : Unread[i + 1] = wire[i]
    BY <1>1, <2>1, <2>2, ConcatProperties
  <2> QED BY <1>1, <2>2, <2>3 DEF Count
<1> QED BY <1>2, <1>3

LEMMA WholeFrames == TypeInv /\ FrameInv => FramesWhole
<1> SUFFICES ASSUME TypeInv, FrameInv, NEW i \in 1..Len(Unread)
             PROVE  IF i % 2 = 1 THEN Unread[i].half = "send"
                    ELSE Unread[i].half = "flush" /\ Unread[i].rid = Unread[i - 1].rid
  BY DEF FramesWhole
<1>1. Len(wire) \in Nat /\ Mid \in {0, 1} /\ (Mid = 0 <=> srvHalf = 0)
  BY LenProperties DEF TypeInv, TypeOK, NetOK, Mid
<1>2. CASE i <= Mid
  BY <1>1, <1>2, UnreadHalves
<1>3. CASE i > Mid
  <2> DEFINE j == i - Mid
  <2>1. j \in 1..Len(wire) /\ Unread[i] = wire[j] /\ i = j + Mid
    BY <1>1, <1>3, UnreadHalves DEF Count
  <2>2. CASE i % 2 = 1
    BY <2>1, <2>2 DEF FrameInv, WireWhole
  <2>3. CASE i % 2 # 1
    <3>1. i % 2 = 0 /\ i >= 2
      BY <2>3, Parity
    <3>2. wire[j].half = "flush" /\ wire[j].rid = Before(j)
      BY <2>1, <3>1 DEF FrameInv, WireWhole
    <3>3. Before(j) = Unread[i - 1].rid
      <4>1. CASE j = 1
        <5>1. srvHalf # 0 /\ i - 1 = 1
          BY <1>1, <2>1, <3>1, <4>1
        <5> QED BY <4>1, <5>1, UnreadHalves DEF Before
      <4>2. CASE j # 1
        <5>1. j - 1 \in 1..Len(wire) /\ i - 1 = (j - 1) + Mid
          BY <1>1, <2>1, <4>2
        <5> QED BY <4>2, <5>1, UnreadHalves DEF Before
      <4> QED BY <4>1, <4>2
    <3> QED BY <2>1, <2>3, <3>2, <3>3
  <2> QED BY <2>2, <2>3
<1> QED BY <1>1, <1>2, <1>3

\* However many threads write, and however little room the socket leaves them,
\* the server sees whole frames.
THEOREM FramesStayWhole == Spec => []FramesWhole
BY FrameInvariant, TypeInvariant, WholeFrames, PTL

\* A close never cuts a frame that a connected server is reading.
THEOREM CloseCutsNothing == Spec => []CloseNeverTears
<1>1. TypeInv /\ FrameInv => CloseNeverTears
  <2> SUFFICES ASSUME TypeInv, FrameInv, conn = "closed", peer = "up"
               PROVE  Len(Unread) % 2 = 0
    BY DEF CloseNeverTears
  <2>1. Count \in Nat
    BY LenProperties DEF Count, Mid, TypeInv, TypeOK, NetOK
  <2>2. Count % 2 # 1
    BY DEF FrameInv, CutByWriter, NoneCut
  <2> QED BY <2>1, <2>2, UnreadHalves, Parity
<1> QED BY FrameInvariant, TypeInvariant, <1>1, PTL
==============================================================================
