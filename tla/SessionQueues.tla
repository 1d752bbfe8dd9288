--------------------------- MODULE SessionQueues ---------------------------
(***************************************************************************)
(* What goes through the two queues of Session, for any callers, limits and*)
(* answers, from the types proved in SessionProof: the fate of every push, *)
(* and whose answer ends which call.                                       *)
(***************************************************************************)
EXTENDS SessionProof, FiniteSetTheorems, FunctionTheorems

(***************************************************************************)
(* The fate of every push.  PushAccounting is inductive beside TypeInv,    *)
(* which says that the receiver holds a push only if it has decoded one.   *)
(***************************************************************************)
Last == received[Len(received)]

LEMMA PushInit == Init => PushAccounting
<1> SUFFICES ASSUME Init PROVE received = taken \o pushes \o InHand
  BY DEF PushAccounting
<1>1. received = <<>> /\ taken = <<>> /\ pushes = <<>> /\ InHand = <<>>
  BY ThreadFacts DEF Init, InHand
<1> QED BY <1>1

\* Steps that leave the pushes and the receiver's hand alone.
LEMMA PushKeep ==
  ASSUME PushAccounting, UNCHANGED <<received, taken, pushes, InHand>>,
         done /\ pc[Rx] \in {"check", "dead"} => done' /\ pc'[Rx] \in {"check", "dead"}
  PROVE  PushAccounting'
BY DEF PushAccounting

\* The writer of a push acknowledgement keeps the push in hand, and a closing
\* receiver holds none.
LEMMA HandKept ==
  ASSUME TypeInv, NEW t \in Threads, Write(t) \/ Close(t)
  PROVE  /\ UNCHANGED <<received, taken, pushes, InHand>> /\ (done => done')
         /\ pc[Rx] \in {"check", "dead"} => pc'[Rx] = pc[Rx]
<1> USE ThreadFacts
<1>1. UNCHANGED <<received, taken, pushes>> /\ (done => done')
  BY DEF Write, AcquireWrite, SendHalf, SendFails, Close, CloseEnter, CloseSetDone,
     CloseSocket, queueVars, closeVars
<1>2. (pc[Rx] \in Holding <=> pc'[Rx] \in Holding)
      /\ (pc[Rx] \in {"check", "dead"} => pc'[Rx] = pc[Rx])
  <2>1. CASE AcquireWrite(t)
    BY <2>1 DEF AcquireWrite, Goto, Holding, TypeInv, TypeOK, ThreadsOK
  <2>2. CASE SendHalf(t)
    BY <2>2 DEF SendHalf, Sent, AfterSend, Goto, Holding, TypeInv, TypeOK, ThreadsOK
  <2>3. CASE SendFails(t)
    BY <2>3 DEF SendFails, Return, Goto, Holding, TypeInv, TypeOK, ThreadsOK
  <2>4. CASE CloseEnter(t)
    BY <2>4 DEF CloseEnter, LeaveClose, Return, Goto, Holding, TypeInv, TypeOK, ThreadsOK
  <2>5. CASE CloseSetDone(t)
    BY <2>5 DEF CloseSetDone, Goto, Holding, TypeInv, TypeOK, ThreadsOK
  <2>6. CASE CloseSocket(t)
    BY <2>6 DEF CloseSocket, LeaveClose, Return, Goto, Holding, TypeInv, TypeOK, ThreadsOK
  <2> QED BY <2>1, <2>2, <2>3, <2>4, <2>5, <2>6 DEF Write, Close
<1>3. UNCHANGED InHand
  BY <1>1, <1>2 DEF InHand, Holding
<1> QED BY <1>1, <1>2, <1>3

LEMMA PushWriteClose ==
  ASSUME TypeInv, PushAccounting, NEW t \in Threads, Write(t) \/ Close(t)
  PROVE  PushAccounting'
BY HandKept, PushKeep

\* A push is decoded: the receiver's hand was empty and now holds it.
LEMMA PushDecoded == ASSUME TypeInv, PushAccounting, RxPush PROVE PushAccounting'
<1> USE ThreadFacts
<1> DEFINE id == Head(inbound).id
<1>1. /\ pc[Rx] = "recv" /\ pc'[Rx] = "lock"
      /\ received' = Append(received, id) /\ UNCHANGED <<taken, pushes>>
  BY DEF RxPush, RxRecv, Encode, Goto, TypeInv, TypeOK, ThreadsOK
<1>2. id \in Nat
  <2>1. inbound # <<>> /\ Head(inbound).kind = "push" /\ Head(inbound) \in Frames
    BY HeadTailProperties DEF RxPush, RxRecv, TypeInv, TypeOK, NetOK
  <2> QED BY <2>1 DEF Frames, AckFrames
<1>3. received \in Seq(Nat) /\ taken \in Seq(Nat) /\ pushes \in Seq(Nat)
  BY DEF TypeInv, TypeOK, QueuesOK
<1>4. received = taken \o pushes
  <2>1. InHand = <<>> /\ received = taken \o pushes \o InHand
    BY <1>1 DEF PushAccounting, InHand
  <2>2. taken \o pushes \in Seq(Nat)
    BY <1>3, ConcatProperties
  <2> QED BY <2>1, <2>2, ConcatEmptySeq
<1>5. InHand' = <<id>>
  BY <1>1, <1>2, <1>3, AppendProperties DEF InHand
<1>6. received' = (taken \o pushes) \o <<id>>
  BY <1>1, <1>2, <1>3, <1>4, AppendIsConcat
<1> QED BY <1>1, <1>5, <1>6 DEF PushAccounting

\* The put loop: the push in hand is queued, kept, or given up to a close.
LEMMA PushPut ==
  ASSUME TypeInv, PushAccounting, RxHandover \/ RxPut PROVE PushAccounting'
<1> USE ThreadFacts
<1>1. /\ received \in Seq(Nat) /\ taken \in Seq(Nat) /\ pushes \in Seq(Nat)
      /\ UNCHANGED <<received, taken, done>>
  BY DEF RxHandover, RxPut, queueVars, closeVars, TypeInv, TypeOK, QueuesOK
<1>2. pc[Rx] \in {"handover", "put"} /\ received # <<>> /\ InHand = <<Last>>
  BY DEF RxHandover, RxPut, TypeInv, HandHeld, Holding, InHand, Last
<1>3. Last \in Nat
  BY <1>1, <1>2, LenProperties, EmptySeq DEF Last
<1>4. received = taken \o pushes \o <<Last>>
  BY <1>2 DEF PushAccounting
<1>5. CASE RxHandover
  <2>1. pushes' = pushes /\ pc'[Rx] = IF done THEN "check" ELSE "put"
    BY <1>5 DEF RxHandover, Goto, queueVars, TypeInv, TypeOK, ThreadsOK
  <2>2. CASE done
    BY <1>1, <1>2, <1>4, <2>1, <2>2 DEF PushAccounting, Last
  <2>3. CASE ~done
    <3>1. InHand' = <<Last>>
      BY <1>1, <2>1, <2>3 DEF InHand, Last
    <3> QED BY <1>1, <1>4, <2>1, <3>1 DEF PushAccounting
  <2> QED BY <2>2, <2>3
<1>6. CASE RxPut
  <2>1. CASE Len(pushes) < PushCap
    <3>1. pushes' = Append(pushes, Last) /\ pc'[Rx] = "check"
      BY <1>6, <2>1 DEF RxPut, Goto, Last, TypeInv, TypeOK, ThreadsOK
    <3>2. InHand' = <<>> /\ pushes' = pushes \o <<Last>>
      BY <1>1, <1>3, <3>1, AppendIsConcat DEF InHand
    <3>3. <<Last>> \in Seq(Nat)
      BY <1>3
    <3>4. received = taken \o (pushes \o <<Last>>)
      BY <1>1, <1>4, <3>3, ConcatAssociative
    <3>5. taken \o (pushes \o <<Last>>) \in Seq(Nat)
      BY <1>1, <3>4
    <3>6. received' = taken' \o pushes' \o InHand'
      BY <1>1, <3>2, <3>4, <3>5, ConcatEmptySeq
    <3> QED BY <3>6 DEF PushAccounting
  <2>2. CASE ~(Len(pushes) < PushCap)
    <3>1. pushes' = pushes /\ pc'[Rx] = "handover"
      BY <1>6, <2>2 DEF RxPut, Goto, TypeInv, TypeOK, ThreadsOK
    <3>2. InHand' = <<Last>>
      BY <1>1, <3>1 DEF InHand, Last
    <3> QED BY <1>1, <1>4, <3>1, <3>2 DEF PushAccounting
  <2> QED BY <2>1, <2>2
<1> QED BY <1>5, <1>6

\* Moving the head of one sequence to the end of another keeps their concatenation.
LEMMA HeadMoves ==
  ASSUME NEW before \in Seq(Nat), NEW queue \in Seq(Nat), queue # <<>>
  PROVE  Append(before, Head(queue)) \o Tail(queue) = before \o queue
<1> DEFINE p == Head(queue)
           rest == Tail(queue)
<1>1. p \in Nat /\ rest \in Seq(Nat) /\ queue = <<p>> \o rest
  BY HeadTailProperties
<1>2. <<p>> \in Seq(Nat)
  BY <1>1
<1> HIDE DEF p, rest
<1>3. Append(before, p) = before \o <<p>>
  BY <1>1, AppendIsConcat
<1>4. (before \o <<p>>) \o rest = before \o (<<p>> \o rest)
  BY <1>1, <1>2, ConcatAssociative
<1>5. Append(before, p) \o rest = before \o queue
  BY <1>1, <1>3, <1>4
<1> QED
  BY <1>5 DEF p, rest

\* A caller moves the oldest push from the queue to its result.
LEMMA PushTaken ==
  ASSUME TypeInv, PushAccounting, NEW c \in Callers, TakePush(c) PROVE PushAccounting'
<1> USE ThreadFacts
<1>1. /\ pushes # <<>> /\ pushes' = Tail(pushes) /\ taken' = Append(taken, Head(pushes))
      /\ UNCHANGED <<received, done>>
  BY DEF TakePush, closeVars
<1>2. pc'[Rx] = pc[Rx]
  BY DEF TakePush, Return, Goto, TypeInv, TypeOK, ThreadsOK
<1>3. InHand' = InHand
  BY <1>1, <1>2 DEF InHand
<1>4. taken \in Seq(Nat) /\ pushes \in Seq(Nat)
  BY DEF TypeInv, TypeOK, QueuesOK
<1>5. taken' \o pushes' = taken \o pushes
  BY <1>1, <1>4, HeadMoves
<1> QED BY <1>1, <1>2, <1>3, <1>5 DEF PushAccounting

\* The steps of the receiver that touch no push.
LEMMA ReceiverKeeps ==
  ASSUME TypeInv, RxCheck \/ RxAck \/ RxJunk \/ RxShort \/ RxEof \/ RxClosed
  PROVE  /\ UNCHANGED <<received, taken, pushes, InHand, done>>
         /\ done /\ pc[Rx] \in {"check", "dead"} => pc'[Rx] \in {"check", "dead"}
<1> USE ThreadFacts
<1>1. CASE RxCheck
  <2>1. UNCHANGED <<received, taken, pushes, done>> /\ pc[Rx] = "check"
        /\ pc'[Rx] = IF done THEN "dead" ELSE "recv"
    BY <1>1 DEF RxCheck, Goto, queueVars, closeVars, TypeInv, TypeOK, ThreadsOK
  <2> QED BY <2>1 DEF InHand
<1>2. CASE RxAck \/ RxJunk \/ RxShort \/ RxEof \/ RxClosed
  <2>1. UNCHANGED <<received, taken, pushes, done>> /\ pc[Rx] = "recv"
    BY <1>2 DEF RxAck, RxJunk, RxShort, RxEof, RxClosed, RxRecv, RxFail, queueVars,
       closeVars
  <2>2. pc'[Rx] \in {"check", "dead", "close"}
    BY <1>2 DEF RxAck, RxJunk, RxShort, RxEof, RxClosed, RxFail, Goto, TypeInv, TypeOK,
       ThreadsOK
  <2> QED BY <2>1, <2>2 DEF InHand
<1> QED BY <1>1, <1>2

LEMMA PushReceiver == ASSUME TypeInv, PushAccounting, RxStep \/ RxClosed
                      PROVE  PushAccounting'
<1>1. CASE RxCheck \/ RxAck \/ RxJunk \/ RxShort \/ RxEof \/ RxClosed
  BY <1>1, ReceiverKeeps, PushKeep
<1> QED BY <1>1, PushDecoded, PushPut, PushWriteClose, ThreadFacts DEF RxStep

\* The other steps that do so.
LEMMA OthersKeep ==
  ASSUME TypeInv,
         \/ HbFire \/ HbStop \/ Environment \/ UNCHANGED vars
         \/ \E c \in Callers : TakeAck(c) \/ QueueEmpty(c) \/ IsDone(c) \/ TimeOut(c)
                                 \/ AppCall(c)
  PROVE  UNCHANGED <<received, taken, pushes, InHand, done>> /\ pc'[Rx] = pc[Rx]
<1> USE ThreadFacts
<1> SUFFICES UNCHANGED <<received, taken, pushes, done>> /\ pc'[Rx] = pc[Rx]
  BY DEF InHand
<1>2. CASE Environment
  BY <1>2 DEF Environment, SrvNoise, SrvPush, SrvRead, PeerFin, PeerReset, PeerGone,
     queueVars, closeVars
<1>3. CASE UNCHANGED vars
  BY <1>3 DEF vars, queueVars, closeVars
<1>4. CASE HbFire \/ HbStop
  BY <1>4 DEF HbFire, HbStop, Encode, Goto, queueVars, closeVars, TypeInv, TypeOK, ThreadsOK
<1>5. ASSUME NEW c \in Callers,
             TakeAck(c) \/ QueueEmpty(c) \/ IsDone(c) \/ TimeOut(c) \/ AppCall(c)
      PROVE  UNCHANGED <<received, taken, pushes, done>> /\ pc'[Rx] = pc[Rx]
  <2>1. CASE TakeAck(c) \/ QueueEmpty(c) \/ IsDone(c) \/ TimeOut(c)
    BY <2>1 DEF TakeAck, QueueEmpty, IsDone, TimeOut, GiveUp, Return, Goto,
       queueVars, closeVars, TypeInv, TypeOK, ThreadsOK
  <2>2. CASE AppCall(c)
    BY <2>2 DEF AppCall, CallSetAlias, CallWait, CallClose, Call, Encode, Goto,
       queueVars, closeVars, TypeInv, TypeOK, ThreadsOK
  <2> QED BY <1>5, <2>1, <2>2
<1> QED BY <1>2, <1>3, <1>4, <1>5

LEMMA PushRest ==
  ASSUME TypeInv, PushAccounting,
         \/ HbStep \/ Environment \/ UNCHANGED vars
         \/ \E c \in Callers : CallerStep(c) \/ AppCall(c)
  PROVE  PushAccounting'
<1>1. CASE \/ HbFire \/ HbStop \/ Environment \/ UNCHANGED vars
           \/ \E c \in Callers : TakeAck(c) \/ QueueEmpty(c) \/ IsDone(c) \/ TimeOut(c)
                                   \/ AppCall(c)
  BY <1>1, OthersKeep, PushKeep
<1>2. CASE \E c \in Callers : TakePush(c)
  BY <1>2, PushTaken
<1>3. CASE Write(Hb) \/ Close(Hb) \/ \E c \in Callers : Write(c) \/ Close(c)
  BY <1>3, PushWriteClose, ThreadFacts
<1> QED BY <1>1, <1>2, <1>3 DEF HbStep, CallerStep

\* Every push the receiver decodes is handed out once and in order, waits in the
\* queue or in the receiver's hand, or is the one push a close may cost, for
\* any queue limit and any number of waiting threads.
THEOREM PushesAccounted == Spec => []PushAccounting
<1>1. TypeInv /\ PushAccounting /\ [Next]_vars => PushAccounting'
  BY PushReceiver, PushRest DEF Next
<1> QED BY PushInit, TypeInvariant, <1>1, PTL DEF Spec

(***************************************************************************)
(* Acknowledged first.  AckedFirst counts what callers can see; what is    *)
(* inductive counts what the receiver decoded: every push but the one being*)
(* acknowledged has been.                                                  *)
(***************************************************************************)
Acking == pc[Rx] \in {"lock", "send", "flush"}
AckedAll == peer = "up" /\ conn = "open" =>
              IF Acking THEN acked + 1 >= Len(received) ELSE acked >= Len(received)

LEMMA AckInit == Init => AckedAll
BY ThreadFacts DEF Init, AckedAll, Acking

\* A lost peer does not come back, and a closed socket is not opened again.
LEMMA AckKeep ==
  ASSUME AckedAll, UNCHANGED <<received, acked, Acking>>,
         peer' = "up" => peer = "up", conn' = "open" => conn = "open"
  PROVE  AckedAll'
BY DEF AckedAll

LEMMA AckWrite == ASSUME TypeInv, AckedAll, NEW t \in Threads, Write(t) PROVE AckedAll'
<1> USE ThreadFacts
<1>1. CASE AcquireWrite(t)
  <2>1. UNCHANGED Acking
    BY <1>1 DEF AcquireWrite, Goto, Acking, TypeInv, TypeOK, ThreadsOK
  <2> QED BY <1>1, <2>1, AckKeep DEF AcquireWrite, queueVars, netVars, closeVars
<1>2. CASE SendFails(t)
  <2>1. ~(peer' = "up" /\ conn' = "open")
    BY <1>2 DEF SendFails, netVars, closeVars
  <2> QED BY <2>1 DEF AckedAll
<1>3. CASE SendHalf(t)
  <2>1. received' = received /\ conn' = conn /\ (peer' = "up" => peer = "up")
    BY <1>3 DEF SendHalf, closeVars
  <2>2. CASE t = Rx /\ pc[Rx] = "flush" /\ peer = "up"
    <3>1. Acking /\ ~Acking' /\ acked' = acked + 1
      BY <1>3, <2>2 DEF SendHalf, Sent, AfterSend, Goto, Acking, TypeInv, TypeOK,
         ThreadsOK
    <3> QED BY <2>1, <2>2, <3>1 DEF AckedAll
  <2>3. CASE peer # "up"
    BY <2>1, <2>3 DEF AckedAll
  <2>4. CASE t # Rx \/ pc[Rx] # "flush"
    <3>1. acked' = acked
      BY <1>3, <2>4 DEF SendHalf, Sent
    <3>2. UNCHANGED Acking
      BY <1>3, <2>4 DEF SendHalf, Sent, AfterSend, Goto, Acking, TypeInv, TypeOK,
         ThreadsOK
    <3> QED BY <2>1, <3>1, <3>2, AckKeep
  <2> QED BY <2>2, <2>3, <2>4
<1> QED BY <1>1, <1>2, <1>3 DEF Write

LEMMA AckClose == ASSUME TypeInv, AckedAll, NEW t \in Threads, Close(t) PROVE AckedAll'
<1> USE ThreadFacts
<1>1. UNCHANGED <<received, acked, peer>> /\ (conn' = "open" => conn = "open")
  BY DEF Close, CloseEnter, CloseSetDone, CloseSocket, queueVars, netVars, closeVars
<1>2. UNCHANGED Acking
  <2>1. CASE CloseEnter(t)
    BY <2>1 DEF CloseEnter, LeaveClose, Return, Goto, Acking, TypeInv, TypeOK, ThreadsOK
  <2>2. CASE CloseSetDone(t)
    BY <2>2 DEF CloseSetDone, Goto, Acking, TypeInv, TypeOK, ThreadsOK
  <2>3. CASE CloseSocket(t)
    BY <2>3 DEF CloseSocket, LeaveClose, Return, Goto, Acking, TypeInv, TypeOK, ThreadsOK
  <2> QED BY <2>1, <2>2, <2>3 DEF Close
<1> QED BY <1>1, <1>2, AckKeep

LEMMA AckReceiver == ASSUME TypeInv, AckedAll, RxStep \/ RxClosed PROVE AckedAll'
<1> USE ThreadFacts
<1>1. CASE RxPush
  <2>1. ~Acking /\ Acking' /\ UNCHANGED <<acked, peer, conn>>
    BY <1>1 DEF RxPush, RxRecv, Encode, Goto, Acking, closeVars, TypeInv, TypeOK, ThreadsOK
  <2>2. Len(received') = Len(received) + 1 /\ Len(received) \in Nat /\ acked \in Nat
    <3>1. received \in Seq(Nat) /\ inbound \in Seq(Frames) /\ acked \in Nat
      BY DEF TypeInv, TypeOK, QueuesOK, NetOK
    <3>2. received' = Append(received, Head(inbound).id)
      BY <1>1 DEF RxPush
    <3> QED BY <3>1, <3>2, LenProperties
  <2> QED BY <2>1, <2>2 DEF AckedAll
<1>2. CASE RxCheck \/ RxHandover \/ RxPut
  <2>1. UNCHANGED Acking
    BY <1>2 DEF RxCheck, RxHandover, RxPut, Goto, Acking, TypeInv, TypeOK, ThreadsOK
  <2> QED BY <1>2, <2>1, AckKeep DEF RxCheck, RxHandover, RxPut, queueVars, netVars,
          closeVars
<1>3. CASE RxAck \/ RxJunk \/ RxShort \/ RxEof \/ RxClosed
  <2>1. UNCHANGED <<received, acked, peer, conn>> /\ pc[Rx] = "recv"
    BY <1>3 DEF RxAck, RxJunk, RxShort, RxEof, RxClosed, RxRecv, RxFail, queueVars,
       netVars, closeVars
  <2>2. ~Acking /\ ~Acking'
    BY <1>3, <2>1 DEF RxAck, RxJunk, RxShort, RxEof, RxClosed, RxFail, Goto, Acking,
       TypeInv, TypeOK, ThreadsOK
  <2> QED BY <2>1, <2>2 DEF AckedAll
<1> QED BY <1>1, <1>2, <1>3, AckWrite, AckClose DEF RxStep

LEMMA AckRest ==
  ASSUME TypeInv, AckedAll,
         \/ HbStep \/ Environment \/ UNCHANGED vars
         \/ \E c \in Callers : CallerStep(c) \/ AppCall(c)
  PROVE  AckedAll'
<1> USE ThreadFacts
<1>1. CASE UNCHANGED <<received, acked, conn>> /\ pc'[Rx] = pc[Rx]
           /\ (peer' = "up" => peer = "up")
  <2>1. UNCHANGED Acking
    BY <1>1 DEF Acking
  <2> QED BY <1>1, <2>1, AckKeep
<1>2. CASE Environment
  BY <1>1, <1>2 DEF Environment, SrvNoise, SrvPush, SrvRead, PeerFin, PeerReset, PeerGone,
     queueVars, closeVars
<1>3. CASE UNCHANGED vars
  BY <1>1, <1>3 DEF vars, queueVars, netVars, closeVars
<1>4. CASE HbFire \/ HbStop
  BY <1>1, <1>4 DEF HbFire, HbStop, Encode, Goto, queueVars, netVars, closeVars, TypeInv,
     TypeOK, ThreadsOK
<1>5. ASSUME NEW c \in Callers, CallerStep(c) \/ AppCall(c) PROVE AckedAll'
  <2>1. CASE TakePush(c) \/ TakeAck(c) \/ QueueEmpty(c) \/ IsDone(c) \/ TimeOut(c)
    BY <1>1, <2>1 DEF TakePush, TakeAck, QueueEmpty, IsDone, TimeOut, GiveUp, Return,
       Goto, queueVars, netVars, closeVars, TypeInv, TypeOK, ThreadsOK
  <2>2. CASE AppCall(c)
    BY <1>1, <2>2 DEF AppCall, CallSetAlias, CallWait, CallClose, Call, Encode, Goto,
       queueVars, netVars, closeVars, TypeInv, TypeOK, ThreadsOK
  <2> QED BY <1>5, <2>1, <2>2, AckWrite, AckClose DEF CallerStep
<1> QED BY <1>2, <1>3, <1>4, <1>5, AckWrite, AckClose DEF HbStep

\* What callers have seen or can see is what was decoded, less what is in hand.
LEMMA AckedSeen == TypeInv /\ PushAccounting /\ AckedAll => AckedFirst
<1> SUFFICES ASSUME TypeInv, PushAccounting, AckedAll, peer = "up", conn = "open"
             PROVE  acked >= Len(taken) + Len(pushes)
  BY DEF AckedFirst
<1>1. /\ received \in Seq(Nat) /\ taken \in Seq(Nat) /\ pushes \in Seq(Nat)
      /\ acked \in Nat
  BY DEF TypeInv, TypeOK, QueuesOK
<1>2. ASSUME NEW h \in Seq(Nat), received = taken \o pushes \o h
      PROVE  Len(received) = Len(taken) + Len(pushes) + Len(h)
  <2>1. taken \o pushes \in Seq(Nat) /\ Len(taken \o pushes) = Len(taken) + Len(pushes)
    BY <1>1, ConcatProperties
  <2> QED BY <1>2, <2>1, ConcatProperties
<1>3. CASE received = taken \o pushes \o InHand
  <2>1. InHand \in Seq(Nat) /\ (Acking => Len(InHand) = 1)
    BY <1>1, LenProperties DEF InHand, Acking, TypeInv, HandHeld, Holding
  <2>2. Len(received) = Len(taken) + Len(pushes) + Len(InHand)
    BY <1>2, <1>3, <2>1
  <2>3. Len(taken) \in Nat /\ Len(pushes) \in Nat /\ Len(InHand) \in Nat
    BY <1>1, <2>1, LenProperties
  <2>4. CASE Acking
    <3>1. acked + 1 >= Len(received) /\ Len(InHand) = 1
      BY <2>1, <2>4 DEF AckedAll
    <3> QED BY <1>1, <2>2, <2>3, <3>1
  <2>5. CASE ~Acking
    <3>1. acked >= Len(received)
      BY <2>5 DEF AckedAll
    <3> QED BY <1>1, <2>2, <2>3, <3>1
  <2> QED BY <2>4, <2>5
<1>4. CASE /\ pc[Rx] \in {"check", "dead"} /\ received # <<>>
           /\ received = taken \o pushes \o <<Last>>
  <2>1. ~Acking /\ <<Last>> \in Seq(Nat)
    BY <1>1, <1>4, LenProperties, EmptySeq DEF Acking, Last
  <2>2. Len(received) = Len(taken) + Len(pushes) + 1
    BY <1>2, <1>4, <2>1
  <2>3. Len(taken) \in Nat /\ Len(pushes) \in Nat
    BY <1>1, LenProperties
  <2> QED BY <1>1, <2>1, <2>2, <2>3 DEF AckedAll
<1> QED BY <1>3, <1>4 DEF PushAccounting, Last

\* While the connection is healthy no caller sees a push that the server has not
\* been sent the acknowledgement of, for any number of threads and any limit.
THEOREM AckedBeforeSeen == Spec => []AckedFirst
<1>1. TypeInv /\ AckedAll /\ [Next]_vars => AckedAll'
  BY AckReceiver, AckRest DEF Next
<1> QED BY AckInit, TypeInvariant, PushesAccounted, <1>1, AckedSeen, PTL DEF Spec

(***************************************************************************)
(* Session implements PushStream: every step of a thread is a step of the  *)
(* stream, or none.                                                        *)
(***************************************************************************)
(***************************************************************************)
(* The pushes on their way are those the server has numbered.              *)
(***************************************************************************)
NumberedIn(s) == \A i \in 1..Len(s) : s[i].kind = "push" => s[i].id \in 1..MaxPushes
PushesNumbered == env.pushes <= MaxPushes /\ NumberedIn(inbound)

LEMMA NumberedFront ==
  ASSUME NEW s \in Seq(Frames), NumberedIn(s), NEW n \in 0..Len(s)
  PROVE  NumberedIn(SubSeq(s, 1, n))
BY SubSeqProperties DEF NumberedIn

LEMMA NumberedTail ==
  ASSUME NEW s \in Seq(Frames), s # <<>>, NumberedIn(s)
  PROVE  NumberedIn(Tail(s))
BY HeadTailProperties DEF NumberedIn

LEMMA NumberedAppend ==
  ASSUME NEW s \in Seq(Frames), NumberedIn(s), NEW f \in Frames,
         f.kind = "push" => f.id \in 1..MaxPushes
  PROVE  NumberedIn(Append(s, f))
BY AppendProperties DEF NumberedIn

LEMMA NumberedAnswers ==
  ASSUME NEW s \in Seq(Frames), NumberedIn(s), NEW a \in Seq(Frames),
         \A i \in 1..Len(a) : a[i].kind = "ack"
  PROVE  NumberedIn(s \o a)
BY ConcatProperties DEF NumberedIn

LEMMA NumberedInit == Init => PushesNumbered
BY NumbersAssumption DEF Init, PushesNumbered, NumberedIn

LEMMA NumberedEnvironment ==
  ASSUME TypeInv, PushesNumbered, Environment PROVE PushesNumbered'
<1>1. inbound \in Seq(Frames) /\ NumberedIn(inbound) /\ env.pushes <= MaxPushes
  BY DEF TypeInv, TypeOK, NetOK, PushesNumbered
<1>2. MaxPushes \in Nat /\ env \in [pushes : Nat, beats : Nat, calls : Nat, noise : Nat]
  BY NumbersAssumption DEF TypeInv, TypeOK, EnvOK
<1>3. CASE SrvPush
  <2> DEFINE f == PushFrame(env.pushes + 1)
  <2>1. inbound' = Append(inbound, f) /\ env'.pushes = env.pushes + 1
    BY <1>2, <1>3 DEF SrvPush, Use
  <2>2. f \in Frames /\ f.id = env.pushes + 1 /\ env.pushes + 1 \in 1..MaxPushes
    BY <1>2, <1>3 DEF SrvPush, PushFrame, Frames
  <2> HIDE DEF f
  <2>3. NumberedIn(inbound')
    BY <1>1, <2>1, <2>2, NumberedAppend
  <2> QED BY <2>1, <2>2, <2>3 DEF PushesNumbered, NumberedIn
<1>4. ASSUME NEW kind \in Noise, SrvNoise(kind) PROVE PushesNumbered'
  <2> DEFINE f == IF kind = "other" THEN AckFrame("other", 0, 0) ELSE [kind |-> kind]
  <2>1. inbound' = Append(inbound, f) /\ env'.pushes = env.pushes
    BY <1>2, <1>4 DEF SrvNoise, Use
  <2>2. f \in Frames /\ f.kind # "push"
    BY <1>4, NoiseAssumption DEF Frames, AckFrames, AckFrame
  <2> HIDE DEF f
  <2>3. NumberedIn(inbound')
    BY <1>1, <2>1, <2>2, NumberedAppend
  <2> QED BY <1>1, <2>1, <2>3 DEF PushesNumbered, NumberedIn
<1>5. CASE SrvRead
  <2>1. env' = env
    BY <1>5 DEF SrvRead
  <2>2. CASE inbound' = inbound
    BY <2>1, <2>2 DEF PushesNumbered, NumberedIn
  <2>3. CASE inbound' # inbound
    <3>1. PICK n \in Replies, s \in Statuses :
            inbound' = inbound \o [i \in 1..n |-> AckFrame("alias", s, Head(wire).rid)]
      BY <1>5, <2>3 DEF SrvRead
    <3> DEFINE a == [i \in 1..n |-> AckFrame("alias", s, Head(wire).rid)]
    <3>2. n \in Nat /\ s \in Int /\ Head(wire).rid \in Nat
      <4>1. wire # <<>> /\ wire \in Seq(Halves)
        BY <1>5 DEF SrvRead, TypeInv, TypeOK, NetOK
      <4>2. Head(wire) \in Halves
        BY <4>1, HeadTailProperties
      <4> QED BY <4>2, NumbersAssumption DEF Halves
    <3>3. a \in Seq(Frames) /\ \A i \in 1..Len(a) : a[i].kind = "ack"
      BY <3>2 DEF AckFrame, AckFrames, Frames
    <3> HIDE DEF a
    <3>4. NumberedIn(inbound')
      <4>1. inbound' = inbound \o a
        BY <3>1 DEF a
      <4> QED BY <1>1, <3>3, <4>1, NumberedAnswers
    <3> QED BY <1>1, <2>1, <3>4 DEF PushesNumbered, NumberedIn
  <2> QED BY <2>2, <2>3
<1>6. CASE PeerFin
  BY <1>6 DEF PeerFin, PeerGone, PushesNumbered, NumberedIn
<1>7. CASE PeerReset
  <2>1. env' = env /\ NumberedIn(inbound')
    BY <1>1, <1>7, NumberedFront DEF PeerReset, PeerGone
  <2> QED BY <1>1, <2>1 DEF PushesNumbered, NumberedIn
<1> QED BY <1>3, <1>4, <1>5, <1>6, <1>7 DEF Environment

LEMMA NumberedRest ==
  ASSUME TypeInv, PushesNumbered,
         \/ RxStep \/ RxClosed \/ HbStep \/ UNCHANGED vars
         \/ \E c \in Callers : CallerStep(c) \/ AppCall(c)
  PROVE  PushesNumbered'
<1>0. env \in [pushes : Nat, beats : Nat, calls : Nat, noise : Nat]
  BY DEF TypeInv, TypeOK, EnvOK
<1>1. CASE inbound' = inbound /\ env'.pushes = env.pushes
  BY <1>1 DEF PushesNumbered, NumberedIn
<1>2. ASSUME NEW t \in Threads, Write(t) \/ Close(t) PROVE PushesNumbered'
  BY <1>1, <1>2 DEF Write, AcquireWrite, SendHalf, SendFails, Close, CloseEnter,
     CloseSetDone, CloseSocket, netVars
<1>3. CASE RxPush \/ RxAck \/ RxJunk \/ RxShort
  <2>1. inbound # <<>> /\ inbound' = Tail(inbound) /\ env' = env
    BY <1>3 DEF RxPush, RxAck, RxJunk, RxShort, RxRecv
  <2>2. NumberedIn(inbound')
    BY <2>1, NumberedTail DEF PushesNumbered, TypeInv, TypeOK, NetOK
  <2> QED BY <2>1, <2>2 DEF PushesNumbered, NumberedIn
<1>4. CASE RxCheck \/ RxEof \/ RxHandover \/ RxPut \/ RxClosed \/ HbStop
  BY <1>1, <1>4 DEF RxCheck, RxEof, RxHandover, RxPut, RxClosed, HbStop, netVars
<1>5. CASE HbFire
  BY <1>0, <1>1, <1>5 DEF HbFire, netVars
<1>6. ASSUME NEW c \in Callers, CallerStep(c) \/ AppCall(c) PROVE PushesNumbered'
  <2>1. CASE TakePush(c) \/ TakeAck(c) \/ QueueEmpty(c) \/ IsDone(c) \/ TimeOut(c)
    BY <1>1, <2>1 DEF TakePush, TakeAck, QueueEmpty, IsDone, TimeOut, netVars
  <2>2. CASE AppCall(c)
    BY <1>0, <1>1, <2>2 DEF AppCall, CallSetAlias, CallWait, CallClose, Call, Use, netVars
  <2> QED BY <1>2, <1>6, <2>1, <2>2, ThreadFacts DEF CallerStep
<1>7. CASE UNCHANGED vars
  BY <1>1, <1>7 DEF vars, netVars
<1> QED BY <1>2, <1>3, <1>4, <1>5, <1>6, <1>7, ThreadFacts DEF RxStep, HbStep

LEMMA NumberedNext ==
  ASSUME TypeInv, PushesNumbered, [Next]_vars PROVE PushesNumbered'
BY NumberedEnvironment, NumberedRest DEF Next

(***************************************************************************)
(* The steps of the stream.                                                *)
(***************************************************************************)
Buffer == pushes \o InHand
Phase == IF ~done THEN "open" ELSE IF Lost THEN "ended" ELSE "closed"
StreamStep == [Stream!Next]_(Stream!vars)

LEMMA StreamInit == Init => Stream!Init
<1> SUFFICES ASSUME Init PROVE Stream!Init
  OBVIOUS
<1>1. pushes = <<>> /\ InHand = <<>> /\ taken = <<>> /\ done = FALSE
  BY ThreadFacts DEF Init, InHand
<1> QED BY <1>1 DEF Stream!Init

LEMMA SeqTypes ==
  ASSUME TypeInv
  PROVE  /\ received \in Seq(Nat) /\ taken \in Seq(Nat) /\ pushes \in Seq(Nat)
         /\ InHand \in Seq(Nat) /\ Len(pushes) <= PushCap /\ PushCap \in Nat
<1>1. /\ received \in Seq(Nat) /\ taken \in Seq(Nat) /\ pushes \in Seq(Nat)
      /\ Len(pushes) <= PushCap
  BY DEF TypeInv, TypeOK, QueuesOK
<1>2. InHand \in Seq(Nat)
  BY <1>1, LenProperties DEF InHand, TypeInv, HandHeld, Holding
<1> QED BY <1>1, <1>2, NumbersAssumption

\* A push is lost only to a close, by a receiver that is about to end.
LEMMA LostLater ==
  ASSUME TypeInv, PushAccounting
  PROVE  Lost => done /\ pc[Rx] \in {"check", "dead"}
<1> SUFFICES ASSUME received = taken \o pushes \o InHand PROVE ~Lost
  BY DEF PushAccounting
<1>1. taken \o pushes \in Seq(Nat) /\ Len(taken \o pushes) = Len(taken) + Len(pushes)
  BY SeqTypes, ConcatProperties
<1>2. Len(received) = Len(taken) + Len(pushes) + Len(InHand)
  BY <1>1, SeqTypes, ConcatProperties
<1>3. Len(taken) \in Nat /\ Len(pushes) \in Nat /\ Len(InHand) \in Nat
  BY SeqTypes, LenProperties
<1> QED BY <1>2, <1>3 DEF Lost

\* Steps that leave the pushes alone may close the stream.
LEMMA StreamKeep ==
  ASSUME TypeInv, PushAccounting, UNCHANGED <<received, taken, pushes, InHand>>,
         done => done', done' \in BOOLEAN
  PROVE  StreamStep
<1>1. UNCHANGED <<Buffer, taken, Lost>>
  BY DEF Buffer, Lost
<1>2. CASE done' = done
  <2>1. UNCHANGED Phase
    BY <1>1, <1>2 DEF Phase
  <2> QED BY <1>1, <2>1 DEF StreamStep, Stream!vars, Buffer, Phase
<1>3. CASE done' # done
  <2>1. Phase = "open" /\ Phase' = "closed"
    BY <1>1, <1>3, LostLater DEF Phase, TypeInv, TypeOK, CloseOK
  <2> QED BY <1>1, <2>1 DEF StreamStep, Stream!Next, Stream!Shut, Buffer, Phase
<1> QED BY <1>2, <1>3

\* A decoded push is accepted.
LEMMA StreamAccept ==
  ASSUME TypeInv, PushAccounting, PushesNumbered, RxPush
  PROVE  StreamStep
<1> DEFINE id == Head(inbound).id
<1>1. /\ pc[Rx] = "recv" /\ pc'[Rx] = "lock" /\ received' = Append(received, id)
      /\ UNCHANGED <<taken, pushes, done>>
  BY ThreadFacts DEF RxPush, RxRecv, Encode, Goto, closeVars, TypeInv, TypeOK, ThreadsOK
<1>2. id \in 1..MaxPushes
  <2>1. inbound \in Seq(Frames) /\ inbound # <<>> /\ Head(inbound).kind = "push"
    BY DEF RxPush, RxRecv, TypeInv, TypeOK, NetOK
  <2>2. Head(inbound) = inbound[1] /\ 1 \in 1..Len(inbound)
    BY <2>1, HeadTailProperties, LenProperties, EmptySeq
  <2> QED BY <2>1, <2>2 DEF PushesNumbered, NumberedIn
<1> HIDE DEF id
<1>3. InHand = <<>> /\ InHand' = <<id>> /\ id \in Nat
  BY <1>1, <1>2, SeqTypes, AppendProperties, NumbersAssumption DEF InHand
<1>4. Buffer = pushes /\ Buffer' = Append(Buffer, id)
  BY <1>1, <1>3, SeqTypes, ConcatEmptySeq, AppendIsConcat DEF Buffer
<1>5. Len(Buffer) < PushCap + 1
  BY <1>4, SeqTypes, LenProperties
<1>6. ~Lost /\ ~Lost'
  <2>1. ~Lost
    BY <1>1, LostLater
  <2>2. /\ Len(received') = Len(received) + 1 /\ Len(InHand') = 1 /\ Len(InHand) = 0
        /\ Len(received) \in Nat /\ Len(taken) \in Nat /\ Len(pushes) \in Nat
    BY <1>1, <1>3, SeqTypes, LenProperties, AppendProperties
  <2> QED BY <1>1, <2>1, <2>2 DEF Lost
<1>7. Phase # "ended" /\ Phase' = Phase
  BY <1>1, <1>6 DEF Phase
<1>8. Stream!Accept(id)
  BY <1>1, <1>4, <1>5, <1>7 DEF Stream!Accept, Buffer, Phase
<1> QED BY <1>2, <1>8 DEF StreamStep, Stream!Next

\* A push is queued: it stays in the stream.
LEMMA StreamQueue == ASSUME TypeInv, PushAccounting, RxPut PROVE StreamStep
<1>1. /\ pc[Rx] = "put" /\ received # <<>> /\ InHand = <<Last>>
      /\ UNCHANGED <<received, taken, done>>
  BY DEF RxPut, queueVars, closeVars, TypeInv, HandHeld, Holding, InHand, Last
<1>2. Last \in Nat
  BY <1>1, SeqTypes, LenProperties, EmptySeq DEF Last
<1>3. CASE Len(pushes) < PushCap
  <2>1. pushes' = Append(pushes, Last) /\ pc'[Rx] = "check"
    BY <1>3, ThreadFacts DEF RxPut, Goto, Last, TypeInv, TypeOK, ThreadsOK
  <2>2. InHand' = <<>> /\ pushes' = Buffer /\ pushes' \in Seq(Nat)
    BY <1>1, <1>2, <2>1, SeqTypes, AppendIsConcat, AppendProperties DEF InHand, Buffer
  <2>3. Buffer' = Buffer
    BY <2>2, ConcatEmptySeq DEF Buffer
  <2>4. /\ Len(pushes') = Len(pushes) + 1 /\ Len(InHand) = 1 /\ Len(InHand') = 0
        /\ Len(received) \in Nat /\ Len(taken) \in Nat /\ Len(pushes) \in Nat
    <3>1. Len(pushes') = Len(pushes) + 1
      BY <1>2, <2>1, SeqTypes, AppendProperties
    <3>2. Len(received) \in Nat /\ Len(taken) \in Nat /\ Len(pushes) \in Nat
      BY SeqTypes, LenProperties
    <3> QED BY <1>1, <2>2, <3>1, <3>2
  <2>5. Lost' = Lost
    BY <1>1, <2>4 DEF Lost
  <2>6. Phase' = Phase
    BY <1>1, <2>5 DEF Phase
  <2> QED BY <1>1, <2>3, <2>6 DEF StreamStep, Stream!vars, Buffer, Phase
<1>4. CASE ~(Len(pushes) < PushCap)
  <2>1. pushes' = pushes /\ pc'[Rx] = "handover"
    BY <1>4, ThreadFacts DEF RxPut, Goto, TypeInv, TypeOK, ThreadsOK
  <2>2. InHand' = InHand
    BY <1>1, <2>1 DEF InHand, Last
  <2> QED BY <1>1, <2>1, <2>2, StreamKeep DEF TypeInv, TypeOK, CloseOK
<1> QED BY <1>3, <1>4

\* The put loop gives its push up after a close: the stream loses it and ends.
LEMMA StreamGiveUp == ASSUME TypeInv, PushAccounting, RxHandover PROVE StreamStep
<1>1. /\ pc[Rx] = "handover" /\ received # <<>> /\ InHand = <<Last>>
      /\ UNCHANGED <<received, taken, pushes, done>>
  BY DEF RxHandover, queueVars, closeVars, TypeInv, HandHeld, Holding, InHand, Last
<1>2. pc'[Rx] = IF done THEN "check" ELSE "put"
  BY ThreadFacts DEF RxHandover, Goto, TypeInv, TypeOK, ThreadsOK
<1>3. CASE ~done
  <2>1. InHand' = InHand
    BY <1>1, <1>2, <1>3 DEF InHand, Last
  <2> QED BY <1>1, <2>1, StreamKeep DEF TypeInv, TypeOK, CloseOK
<1>4. CASE done
  <2>1. InHand' = <<>> /\ Last \in Nat
    BY <1>1, <1>2, <1>4, SeqTypes, LenProperties, EmptySeq DEF InHand, Last
  <2>2. Buffer' = pushes /\ Buffer = Append(pushes, Last)
    BY <1>1, <2>1, SeqTypes, ConcatEmptySeq, AppendIsConcat DEF Buffer
  <2>3. Buffer # <<>> /\ Buffer' = SubSeq(Buffer, 1, Len(Buffer) - 1)
    BY <2>1, <2>2, SeqTypes, AppendProperties
  <2>4. ~Lost /\ received = taken \o pushes \o <<Last>>
    BY <1>1, LostLater DEF PushAccounting
  <2>5. Lost'
    <3>1. taken \o pushes \in Seq(Nat) /\ Len(taken \o pushes) = Len(taken) + Len(pushes)
      BY SeqTypes, ConcatProperties
    <3>2. Len(received) = Len(taken) + Len(pushes) + 1
      BY <2>1, <2>4, <3>1, ConcatProperties
    <3>3. Len(taken) \in Nat /\ Len(pushes) \in Nat /\ Len(InHand') = 0
      BY <2>1, SeqTypes, LenProperties
    <3> QED BY <1>1, <3>2, <3>3 DEF Lost
  <2>6. Phase = "closed" /\ Phase' = "ended"
    BY <1>1, <1>4, <2>4, <2>5 DEF Phase
  <2>7. Stream!LoseLast
    BY <1>1, <2>3, <2>6 DEF Stream!LoseLast, Buffer, Phase
  <2> QED BY <2>7 DEF StreamStep, Stream!Next
<1> QED BY <1>3, <1>4

\* The head of a queue is the head of whatever is behind it, too.
LEMMA HeadOfQueue ==
  ASSUME NEW queue \in Seq(Nat), queue # <<>>, NEW rest \in Seq(Nat)
  PROVE  /\ queue \o rest # <<>> /\ Head(queue \o rest) = Head(queue)
         /\ Tail(queue \o rest) = Tail(queue) \o rest
<1>1. queue \o rest \in Seq(Nat) /\ Len(queue \o rest) = Len(queue) + Len(rest)
      /\ Len(queue) \in Nat \ {0} /\ Len(rest) \in Nat
  BY ConcatProperties, LenProperties, EmptySeq
<1>2. queue \o rest # <<>> /\ Head(queue \o rest) = Head(queue)
  BY <1>1, ConcatProperties, HeadTailProperties
<1>3. Tail(queue) \in Seq(Nat) /\ Len(Tail(queue)) = Len(queue) - 1
      /\ \A i \in 1..Len(Tail(queue)) : Tail(queue)[i] = queue[i + 1]
  BY HeadTailProperties
<1>4. Tail(queue \o rest) \in Seq(Nat) /\ Len(Tail(queue \o rest)) = Len(queue) + Len(rest) - 1
      /\ \A i \in 1..Len(Tail(queue \o rest)) : Tail(queue \o rest)[i] = (queue \o rest)[i + 1]
  BY <1>1, <1>2, HeadTailProperties
<1>5. Tail(queue) \o rest \in Seq(Nat)
      /\ Len(Tail(queue) \o rest) = Len(queue) - 1 + Len(rest)
  BY <1>3, ConcatProperties
<1>6. ASSUME NEW i \in 1..(Len(queue) + Len(rest) - 1)
      PROVE  Tail(queue \o rest)[i] = (Tail(queue) \o rest)[i]
  <2>1. Tail(queue \o rest)[i] = (queue \o rest)[i + 1]
    BY <1>4
  <2>2. CASE i <= Len(queue) - 1
    BY <1>1, <1>3, <2>1, <2>2, ConcatProperties
  <2>3. CASE ~(i <= Len(queue) - 1)
    <3>1. (queue \o rest)[i + 1] = rest[i + 1 - Len(queue)]
      BY <1>1, <2>3, ConcatProperties
    <3>2. (Tail(queue) \o rest)[i] = rest[i - (Len(queue) - 1)]
      BY <1>1, <1>3, <2>3, ConcatProperties
    <3>3. i + 1 - Len(queue) = i - (Len(queue) - 1)
      BY <1>1
    <3> QED BY <2>1, <3>1, <3>2, <3>3
  <2> QED BY <2>2, <2>3
<1>7. Tail(queue \o rest) = Tail(queue) \o rest
  BY <1>1, <1>4, <1>5, <1>6, SeqEqual
<1> QED BY <1>2, <1>7

\* A caller takes the oldest push of the stream.
LEMMA StreamHandOut ==
  ASSUME TypeInv, PushAccounting, NEW c \in Callers, TakePush(c) PROVE StreamStep
<1>1. /\ pushes # <<>> /\ pushes' = Tail(pushes) /\ taken' = Append(taken, Head(pushes))
      /\ UNCHANGED <<received, done>> /\ pc'[Rx] = pc[Rx]
  BY ThreadFacts DEF TakePush, closeVars, Return, Goto, TypeInv, TypeOK, ThreadsOK
<1>2. InHand' = InHand
  BY <1>1 DEF InHand
<1>3. Buffer # <<>> /\ taken' = Append(taken, Head(Buffer)) /\ Buffer' = Tail(Buffer)
  BY <1>1, <1>2, SeqTypes, HeadOfQueue DEF Buffer
<1>4. Lost' = Lost
  <2>1. Head(pushes) \in Nat /\ Len(pushes') = Len(pushes) - 1 /\ Len(pushes) \in Nat
        /\ Len(InHand) \in Nat /\ Len(received) \in Nat
    BY <1>1, SeqTypes, HeadTailProperties, LenProperties
  <2>2. Len(taken') = Len(taken) + 1 /\ Len(taken) \in Nat
    BY <1>1, <2>1, SeqTypes, AppendProperties, LenProperties
  <2> QED BY <1>1, <1>2, <2>1, <2>2 DEF Lost
<1>5. Phase' = Phase
  BY <1>1, <1>4 DEF Phase
<1>6. Stream!HandOut
  BY <1>3, <1>5 DEF Stream!HandOut, Buffer, Phase
<1> QED BY <1>6 DEF StreamStep, Stream!Next

LEMMA StreamNext ==
  ASSUME TypeInv, TypeInv', PushAccounting, PushesNumbered, [Next]_vars
  PROVE  StreamStep
<1>1. done' \in BOOLEAN
  BY DEF TypeInv, TypeOK, CloseOK
<1>2. ASSUME NEW t \in Threads, Write(t) \/ Close(t) PROVE StreamStep
  BY <1>1, <1>2, HandKept, StreamKeep
<1>3. CASE RxCheck \/ RxAck \/ RxJunk \/ RxShort \/ RxEof \/ RxClosed
  BY <1>1, <1>3, ReceiverKeeps, StreamKeep
<1>4. CASE \/ HbFire \/ HbStop \/ Environment \/ UNCHANGED vars
           \/ \E c \in Callers : TakeAck(c) \/ QueueEmpty(c) \/ IsDone(c) \/ TimeOut(c)
                                   \/ AppCall(c)
  BY <1>1, <1>4, OthersKeep, StreamKeep
<1>5. CASE RxStep \/ RxClosed \/ HbStep
  BY <1>2, <1>3, <1>4, <1>5, StreamAccept, StreamQueue, StreamGiveUp, ThreadFacts
     DEF RxStep, HbStep
<1>6. ASSUME NEW c \in Callers, CallerStep(c) \/ AppCall(c) PROVE StreamStep
  BY <1>2, <1>4, <1>6, StreamHandOut, ThreadFacts DEF CallerStep
<1> QED BY <1>4, <1>5, <1>6 DEF Next

\* The threads, queues and locks of a session together implement the stream that
\* PushStream promises: a FIFO that loses at most its last push, and only to a close.
THEOREM ImplementsPushStream == Spec => IsPushStream
<1>1. PushesNumbered /\ TypeInv /\ [Next]_vars => PushesNumbered'
  BY NumberedNext
<1>2. Spec => []PushesNumbered
  BY NumberedInit, TypeInvariant, <1>1, PTL DEF Spec
<1>3. TypeInv /\ TypeInv' /\ PushAccounting /\ PushesNumbered /\ [Next]_vars
        => [Stream!Next]_(Stream!vars)
  BY StreamNext DEF StreamStep
<1> QED
  BY StreamInit, TypeInvariant, PushesAccounted, <1>2, <1>3, PTL
     DEF Spec, IsPushStream, Stream!Spec

(***************************************************************************)
(* Counting the members of a sequence that are of some kind.               *)
(***************************************************************************)
Where(s, K) == {i \in DOMAIN s : s[i] \in K}
HowMany(s, K) == Cardinality(Where(s, K))

LEMMA WhereFinite ==
  ASSUME NEW S, NEW s \in Seq(S), NEW K
  PROVE  /\ IsFiniteSet(Where(s, K)) /\ HowMany(s, K) \in Nat
         /\ Where(s, K) \subseteq 1..Len(s)
         /\ (HowMany(s, K) = 0 <=> Where(s, K) = {})
<1>1. Len(s) \in Nat /\ DOMAIN s = 1..Len(s)
  BY LenProperties
<1>2. IsFiniteSet(1..Len(s))
  BY <1>1, FS_Interval
<1>3. Where(s, K) \in SUBSET (1..Len(s))
  BY <1>1 DEF Where
<1>4. IsFiniteSet(Where(s, K))
  BY <1>2, <1>3, FS_Subset
<1> QED BY <1>3, <1>4, FS_CardinalityType, FS_EmptySet DEF HowMany

LEMMA CountEmpty == ASSUME NEW K PROVE HowMany(<<>>, K) = 0
<1>1. Where(<<>>, K) = {}
  BY DEF Where
<1> QED BY <1>1, FS_EmptySet DEF HowMany

LEMMA CountAppend ==
  ASSUME NEW S, NEW s \in Seq(S), NEW x \in S, NEW K
  PROVE  HowMany(Append(s, x), K) = HowMany(s, K) + (IF x \in K THEN 1 ELSE 0)
<1> DEFINE t == Append(s, x)
<1>1. /\ Len(s) \in Nat /\ DOMAIN s = 1..Len(s) /\ DOMAIN t = 1..(Len(s) + 1)
      /\ t[Len(s) + 1] = x /\ \A i \in 1..Len(s) : t[i] = s[i]
  BY LenProperties, AppendProperties
<1>2. IsFiniteSet(Where(s, K)) /\ HowMany(s, K) \in Nat /\ Len(s) + 1 \notin Where(s, K)
  BY <1>1, WhereFinite
<1>3. CASE x \in K
  <2>1. Where(t, K) = Where(s, K) \union {Len(s) + 1}
    BY <1>1, <1>3 DEF Where
  <2> QED BY <1>2, <1>3, <2>1, FS_AddElement DEF HowMany
<1>4. CASE x \notin K
  <2>1. Where(t, K) = Where(s, K)
    BY <1>1, <1>4 DEF Where
  <2> QED BY <1>2, <1>4, <2>1 DEF HowMany
<1> QED BY <1>3, <1>4

LEMMA CountTail ==
  ASSUME NEW S, NEW s \in Seq(S), s # <<>>, NEW K
  PROVE  HowMany(s, K) = HowMany(Tail(s), K) + (IF Head(s) \in K THEN 1 ELSE 0)
<1> DEFINE t == Tail(s)
           Rest == Where(s, K) \ {1}
           F == [i \in Rest |-> i - 1]
<1>1. /\ Len(s) \in Nat /\ Len(s) > 0 /\ DOMAIN s = 1..Len(s)
      /\ t \in Seq(S) /\ Len(t) = Len(s) - 1 /\ DOMAIN t = 1..(Len(s) - 1)
      /\ \A i \in 1..(Len(s) - 1) : t[i] = s[i + 1]
      /\ Head(s) = s[1]
  BY HeadTailProperties, LenProperties, EmptySeq
<1>2. IsFiniteSet(Where(s, K)) /\ HowMany(s, K) \in Nat
  BY WhereFinite
<1>3. IsFiniteSet(Rest)
      /\ Cardinality(Rest) = HowMany(s, K) - (IF Head(s) \in K THEN 1 ELSE 0)
  <2>1. 1 \in Where(s, K) <=> Head(s) \in K
    BY <1>1 DEF Where
  <2> QED BY <1>2, <2>1, FS_RemoveElement DEF HowMany
<1>4. Rest \subseteq 2..Len(s) /\ \A i \in 2..Len(s) : i \in Rest <=> s[i] \in K
  BY <1>1 DEF Where
<1>5. \A i \in 1..(Len(s) - 1) : i \in Where(t, K) <=> s[i + 1] \in K
  BY <1>1 DEF Where
<1>6. Where(t, K) \subseteq 1..(Len(s) - 1)
  BY <1>1 DEF Where
<1>7. F \in Bijection(Rest, Where(t, K))
  <2>1. F \in [Rest -> Where(t, K)]
    BY <1>1, <1>4, <1>5
  <2>2. \A i, j \in Rest : F[i] = F[j] => i = j
    BY <1>1, <1>4
  <2>3. \A j \in Where(t, K) : \E i \in Rest : F[i] = j
    <3> TAKE j \in Where(t, K)
    <3>1. j + 1 \in Rest
      BY <1>1, <1>4, <1>5, <1>6
    <3>2. F[j + 1] = j
      BY <1>1, <1>6, <3>1
    <3> QED BY <3>1, <3>2
  <2> QED BY <2>1, <2>2, <2>3, Fun_IsBij
<1>8. Cardinality(Where(t, K)) = Cardinality(Rest)
  BY <1>3, <1>7, FS_Bijection DEF ExistsBijection
<1> QED BY <1>2, <1>3, <1>8 DEF HowMany

LEMMA CountFront ==
  ASSUME NEW S, NEW s \in Seq(S), NEW n \in 0..Len(s), NEW K
  PROVE  HowMany(SubSeq(s, 1, n), K) <= HowMany(s, K)
<1> DEFINE t == SubSeq(s, 1, n)
<1>1. /\ Len(s) \in Nat /\ DOMAIN s = 1..Len(s)
      /\ DOMAIN t = 1..n /\ \A i \in 1..n : t[i] = s[i]
  <2>1. Len(s) \in Nat /\ DOMAIN s = 1..Len(s)
    BY LenProperties
  <2>2. \A i \in 1..n : s[i] \in S
    BY <2>1
  <2>3. t \in Seq(S) /\ Len(t) = n /\ \A i \in 1..n : t[i] = s[i]
    BY <2>1, <2>2, SubSeqProperties
  <2> QED BY <2>1, <2>3, LenProperties
<1>2. Where(t, K) \in SUBSET Where(s, K)
  BY <1>1 DEF Where
<1> QED BY <1>2, WhereFinite, FS_Subset DEF HowMany

(***************************************************************************)
(* Answers.  What is inductive counts the alias answers due (a request the *)
(* server has still to read, an answer on its way, an answer queued): while*)
(* no call gives up there are no more of them than calls waiting for one.  *)
(***************************************************************************)
AliasAnswers == {f \in AckFrames : f.cmd = "alias"}
Asked == {h \in Halves : h.half = "flush" /\ h.kind = "alias"}
Due == HowMany(wire, Asked) + HowMany(inbound, AliasAnswers)
         + HowMany(acks, AliasAnswers)

\* A thread writes requests of its own kind, a caller those of set_alias, and a
\* caller closes only in close.
Purpose(t) == IF t = Rx THEN "pushack" ELSE IF t = Hb THEN "beat" ELSE "alias"
Closing(c) == pc[c] \in {"close", "setdone", "shut"}
LinesKnown ==
  /\ \A c \in Callers : op[c] = "alias" => c \in AliasCallers
  /\ \A t \in Threads : Writing(t) =>
       req[t].kind = Purpose(t) /\ (t \in Callers => op[t] = "alias")
  /\ \A c \in Callers : Closing(c) => op[c] = "close"

NoneLeftOver == Replies \subseteq {0, 1} /\ ~gaveUp => Due <= Cardinality(Waiting)
NoneMissing ==
  peer = "up" /\ Replies = {1} /\ ~gaveUp /\ ~ackDropped => Due = Cardinality(Waiting)
AnswerInv == LinesKnown /\ IsFiniteSet(Waiting) /\ NoneLeftOver /\ NoneMissing

\* The sets that AnswersForAll counts are those counted here.
LEMMA AnswersCounted ==
  ASSUME TypeInv
  PROVE  Due = Cardinality(Unanswered) + Cardinality(AliasAnswersIn(inbound))
                 + Cardinality(AliasAnswersIn(acks))
<1>1. wire \in Seq(Halves) /\ inbound \in Seq(Frames) /\ acks \in Seq(AckFrames)
  BY DEF TypeInv, TypeOK, NetOK, QueuesOK
<1>2. \A i \in DOMAIN wire : wire[i] \in Halves
  BY <1>1, LenProperties
<1>3. (\A i \in DOMAIN inbound : inbound[i] \in Frames)
      /\ (\A i \in DOMAIN acks : acks[i] \in AckFrames)
  BY <1>1, LenProperties
<1>4. Unanswered = Where(wire, Asked)
  BY <1>2 DEF Unanswered, Where, Asked
<1>5. \A f \in Frames : f.kind = "ack" => f \in AckFrames
  BY DEF Frames, AckFrames
<1>6. AliasAnswersIn(inbound) = Where(inbound, AliasAnswers)
  BY <1>3, <1>5 DEF AliasAnswersIn, Where, AliasAnswers, AckFrames
<1>7. AliasAnswersIn(acks) = Where(acks, AliasAnswers)
  BY <1>3 DEF AliasAnswersIn, Where, AliasAnswers, AckFrames
<1> QED BY <1>4, <1>6, <1>7 DEF Due, HowMany

LEMMA DueNat ==
  ASSUME TypeInv
  PROVE  /\ Due \in Nat /\ HowMany(wire, Asked) \in Nat
         /\ HowMany(inbound, AliasAnswers) \in Nat /\ HowMany(acks, AliasAnswers) \in Nat
<1>1. wire \in Seq(Halves) /\ inbound \in Seq(Frames) /\ acks \in Seq(AckFrames)
  BY DEF TypeInv, TypeOK, NetOK, QueuesOK
<1> QED BY <1>1, WhereFinite DEF Due

LEMMA AnswerInit == Init => AnswerInv
<1> SUFFICES ASSUME Init PROVE AnswerInv
  OBVIOUS
<1>1. Waiting = {} /\ LinesKnown
  BY ThreadFacts DEF Init, Waiting, LinesKnown, Writing, Closing, Callers, Threads
<1>2. Due = 0
  BY CountEmpty DEF Init, Due
<1> QED BY <1>1, <1>2, FS_EmptySet DEF AnswerInv, NoneLeftOver, NoneMissing

(***************************************************************************)
(* The requests.                                                           *)
(***************************************************************************)
LEMMA KnownKeep ==
  ASSUME LinesKnown, UNCHANGED op,
         \A t \in Threads : Writing(t)' => Writing(t) /\ req'[t] = req[t],
         \A c \in Callers : Closing(c)' => Closing(c)
  PROVE  LinesKnown'
BY DEF LinesKnown

LEMMA KnownEncode ==
  ASSUME TypeOK, LinesKnown, NEW t \in Threads, Encode(t, Purpose(t)),
         t \in Callers => t \in AliasCallers /\ op'[t] = "alias",
         \A c \in Callers \ {t} : op'[c] = op[c]
  PROVE  LinesKnown'
<1>1. /\ req'[t].kind = Purpose(t) /\ pc'[t] = "lock"
      /\ \A u \in Threads \ {t} : req'[u] = req[u] /\ pc'[u] = pc[u]
  BY DEF Encode, Goto, TypeOK, ThreadsOK
<1> QED BY <1>1 DEF LinesKnown, Writing, Closing, Threads

LEMMA KnownWriteClose ==
  ASSUME TypeOK, LinesKnown, NEW t \in Threads, Write(t) \/ Close(t)
  PROVE  LinesKnown'
<1> USE ThreadFacts DEF TypeOK, ThreadsOK, Writing, Closing, Goto, Return
<1>1. CASE AcquireWrite(t)
  BY <1>1, KnownKeep DEF AcquireWrite, callVars
<1>2. CASE SendHalf(t)
  BY <1>2, KnownKeep DEF SendHalf, Sent, AfterSend, callVars
<1>3. CASE SendFails(t)
  BY <1>3, KnownKeep DEF SendFails
<1>4. CASE CloseEnter(t)
  BY <1>4, KnownKeep DEF CloseEnter, LeaveClose
<1>5. CASE CloseSetDone(t)
  BY <1>5, KnownKeep DEF CloseSetDone, callVars
<1>6. CASE CloseSocket(t)
  BY <1>6, KnownKeep DEF CloseSocket, LeaveClose
<1> QED BY <1>1, <1>2, <1>3, <1>4, <1>5, <1>6 DEF Write, Close

LEMMA KnownCaller ==
  ASSUME TypeOK, LinesKnown, NEW c \in Callers, CallerStep(c) \/ AppCall(c)
  PROVE  LinesKnown'
<1> USE ThreadFacts DEF TypeOK, ThreadsOK, Writing, Closing, Goto, Return
<1>1. CASE TakePush(c) \/ TakeAck(c)
  BY <1>1, KnownKeep DEF TakePush, TakeAck
<1>2. CASE QueueEmpty(c) \/ IsDone(c) \/ TimeOut(c)
  BY <1>2, KnownKeep DEF QueueEmpty, IsDone, TimeOut, GiveUp, callVars
<1>3. CASE CallSetAlias(c)
  BY <1>3, KnownEncode DEF CallSetAlias, Call, CallsOK, Purpose
<1>4. CASE CallWait(c) \/ CallClose(c)
  BY <1>4 DEF CallWait, CallClose, Call, CallsOK, LinesKnown
<1> QED BY <1>1, <1>2, <1>3, <1>4, KnownWriteClose DEF CallerStep, AppCall

LEMMA KnownNext == ASSUME TypeOK, LinesKnown, [Next]_vars PROVE LinesKnown'
<1> USE ThreadFacts DEF TypeOK, ThreadsOK, Writing, Closing, Goto
<1>1. CASE RxPush
  BY <1>1, KnownEncode DEF RxPush, RxRecv, Purpose, callVars
<1>2. CASE RxCheck \/ RxHandover \/ RxPut
  BY <1>2, KnownKeep DEF RxCheck, RxHandover, RxPut, callVars
<1>3. CASE RxAck \/ RxJunk
  BY <1>3, KnownKeep DEF RxAck, RxJunk, RxRecv, callVars
<1>4. CASE RxShort \/ RxEof \/ RxClosed
  BY <1>4, KnownKeep DEF RxShort, RxRecv, RxEof, RxClosed, RxFail, callVars
<1>5. CASE HbFire
  BY <1>5, KnownEncode DEF HbFire, Purpose, callVars
<1>6. CASE HbStop
  BY <1>6, KnownKeep DEF HbStop, callVars
<1>7. CASE Environment
  BY <1>7, KnownKeep DEF Environment, SrvNoise, SrvPush, SrvRead, PeerFin, PeerReset,
     PeerGone, callVars
<1>8. CASE UNCHANGED vars
  BY <1>8, KnownKeep DEF vars, callVars
<1> QED BY <1>1, <1>2, <1>3, <1>4, <1>5, <1>6, <1>7, <1>8, KnownWriteClose, KnownCaller
        DEF Next, RxStep, HbStep

(***************************************************************************)
(* The calls that wait.                                                    *)
(***************************************************************************)
\* A step of one thread changes who waits only if that thread starts or stops.
LEMMA WaitKeep ==
  ASSUME NEW t, t \in Waiting' <=> t \in Waiting,
         \A c \in AliasCallers \ {t} : pc'[c] = pc[c] /\ op'[c] = op[c]
  PROVE  Waiting' = Waiting
BY DEF Waiting

LEMMA WaitClose ==
  ASSUME TypeOK, NEW t \in Threads, Close(t)
  PROVE  UNCHANGED <<Waiting, gaveUp, netVars, queueVars>>
<1> USE ThreadFacts DEF TypeOK, ThreadsOK, Goto, Return, Waiting, Callers, Threads
<1>1. CASE CloseEnter(t)
  BY <1>1, WaitKeep DEF CloseEnter, LeaveClose
<1>2. CASE CloseSetDone(t)
  BY <1>2, WaitKeep DEF CloseSetDone, callVars
<1>3. CASE CloseSocket(t)
  BY <1>3, WaitKeep DEF CloseSocket, LeaveClose
<1> QED BY <1>1, <1>2, <1>3 DEF Close

LEMMA WaitReceiver ==
  ASSUME TypeOK,
         \/ RxCheck \/ RxPush \/ RxAck \/ RxJunk \/ RxShort \/ RxEof \/ RxHandover
         \/ RxPut \/ RxClosed \/ HbFire \/ HbStop
  PROVE  UNCHANGED <<Waiting, gaveUp>>
<1> USE ThreadFacts DEF TypeOK, ThreadsOK, Goto, Waiting, Callers, Threads
<1>1. CASE RxCheck \/ RxHandover \/ RxPut
  BY <1>1 DEF RxCheck, RxHandover, RxPut, callVars
<1>2. CASE RxPush \/ RxAck \/ RxJunk
  BY <1>2 DEF RxPush, RxAck, RxJunk, RxRecv, Encode, callVars
<1>3. CASE RxShort \/ RxEof \/ RxClosed
  BY <1>3 DEF RxShort, RxRecv, RxEof, RxClosed, RxFail, callVars
<1>4. CASE HbFire \/ HbStop
  BY <1>4 DEF HbFire, HbStop, Encode, callVars
<1> QED BY <1>1, <1>2, <1>3, <1>4

LEMMA WaitCaller ==
  ASSUME TypeOK, NEW c \in Callers,
         \/ AppCall(c) \/ TakePush(c) \/ QueueEmpty(c)
         \/ (IsDone(c) \/ TimeOut(c)) /\ ~gaveUp'
  PROVE  UNCHANGED <<Waiting, gaveUp>>
<1> USE ThreadFacts DEF TypeOK, ThreadsOK, CallsOK, Goto, Return, Waiting, Callers, Threads
<1>1. CASE AppCall(c)
  BY <1>1, WaitKeep DEF AppCall, CallSetAlias, CallWait, CallClose, Call, Encode
<1>2. CASE TakePush(c)
  BY <1>2, WaitKeep DEF TakePush
<1>3. CASE QueueEmpty(c)
  BY <1>3, WaitKeep DEF QueueEmpty, callVars
<1>4. CASE (IsDone(c) \/ TimeOut(c)) /\ ~gaveUp'
  <2>1. UNCHANGED op /\ pc[c] \in {"isdone", "get"}
    BY <1>4 DEF IsDone, TimeOut
  <2>2. ~gaveUp /\ (op[c] = "alias" => pc'[c] = "get")
    BY <1>4 DEF IsDone, TimeOut, GiveUp, CallsOK
  <2>3. \A u \in Threads \ {c} : pc'[u] = pc[u]
    BY <1>4 DEF IsDone, TimeOut, GiveUp
  <2>4. c \in Waiting' <=> c \in Waiting
    BY <2>1, <2>2
  <2> HIDE DEF Waiting
  <2>5. UNCHANGED Waiting
    BY <2>1, <2>3, <2>4, WaitKeep
  <2>6. gaveUp \in BOOLEAN /\ gaveUp' \in BOOLEAN
    BY <1>4 DEF IsDone, TimeOut, GiveUp, CallsOK
  <2> QED BY <1>4, <2>2, <2>5, <2>6
<1> QED BY <1>1, <1>2, <1>3, <1>4

LEMMA WaitEnvironment == Environment => UNCHANGED <<Waiting, gaveUp, acks, ackDropped>>
BY DEF Environment, SrvNoise, SrvPush, SrvRead, PeerFin, PeerReset, PeerGone, Waiting,
   callVars, queueVars

(***************************************************************************)
(* The count.  Each step moves what is due and who waits together, but for *)
(* answers the server does not give or a lost connection does not deliver. *)
(***************************************************************************)
Counted == IsFiniteSet(Waiting) /\ NoneLeftOver /\ NoneMissing

LEMMA CountStep ==
  ASSUME TypeInv, TypeInv', Counted, IsFiniteSet(Waiting'),
         NEW k \in Int,
         ~gaveUp' => ~gaveUp /\ Cardinality(Waiting') = Cardinality(Waiting) + k,
         Replies \subseteq {0, 1} => Due' <= Due + k,
         peer' = "up" /\ Replies = {1} /\ ~ackDropped' =>
           peer = "up" /\ ~ackDropped /\ Due' = Due + k
  PROVE  Counted'
<1>1. Due \in Nat /\ Due' \in Nat
  <2>1. wire' \in Seq(Halves) /\ inbound' \in Seq(Frames) /\ acks' \in Seq(AckFrames)
    BY DEF TypeInv, TypeOK, NetOK, QueuesOK
  <2>2. Due \in Nat BY DueNat
  <2>3. HowMany(wire', Asked) \in Nat BY <2>1, WhereFinite
  <2>4. HowMany(inbound', AliasAnswers) \in Nat BY <2>1, WhereFinite
  <2>5. HowMany(acks', AliasAnswers) \in Nat BY <2>1, WhereFinite
  <2> QED BY <2>2, <2>3, <2>4, <2>5 DEF Due
<1>2. Cardinality(Waiting) \in Nat /\ Cardinality(Waiting') \in Nat
  BY FS_CardinalityType DEF Counted
<1>3. NoneLeftOver'
  <2>1. SUFFICES ASSUME ~gaveUp', Replies \subseteq {0, 1}
                 PROVE  Due' <= Cardinality(Waiting')
    BY DEF NoneLeftOver
  <2>2. Cardinality(Waiting') = Cardinality(Waiting) + k /\ Due' <= Due + k
    BY <2>1
  <2>3. Due <= Cardinality(Waiting) BY <2>1 DEF Counted, NoneLeftOver
  <2> HIDE DEF Due, Waiting
  <2> QED BY <1>1, <1>2, <2>2, <2>3
<1>4. NoneMissing'
  <2>1. SUFFICES ASSUME peer' = "up", Replies = {1}, ~gaveUp', ~ackDropped'
                 PROVE  Due' = Cardinality(Waiting')
    BY DEF NoneMissing
  <2>2. /\ ~gaveUp /\ Cardinality(Waiting') = Cardinality(Waiting) + k
        /\ peer = "up" /\ ~ackDropped /\ Due' = Due + k
    BY <2>1
  <2>3. Due = Cardinality(Waiting) BY <2>1, <2>2 DEF Counted, NoneMissing
  <2> HIDE DEF Due, Waiting
  <2> QED BY <1>1, <1>2, <2>2, <2>3
<1> QED BY <1>3, <1>4 DEF Counted

\* Steps that move nothing counted.
LEMMA CountKeep ==
  ASSUME TypeInv, TypeInv', Counted, UNCHANGED <<Waiting, gaveUp, peer, ackDropped>>,
         UNCHANGED <<HowMany(wire, Asked), HowMany(inbound, AliasAnswers),
                     HowMany(acks, AliasAnswers)>>
  PROVE  Counted'
<1>1. Due \in Nat /\ Due' = Due + 0
  BY DueNat DEF Due
<1>2. Cardinality(Waiting) \in Nat /\ Cardinality(Waiting') = Cardinality(Waiting) + 0
  BY FS_CardinalityType DEF Counted
<1> QED BY <1>1, <1>2, CountStep DEF Counted

\* Steps that touch neither the network nor the queue of answers.
Aside ==
  \/ RxCheck \/ RxEof \/ RxHandover \/ RxPut \/ RxClosed \/ HbFire \/ HbStop
  \/ \E t \in Threads : Close(t)
  \/ \E c \in Callers : AppCall(c) \/ TakePush(c) \/ QueueEmpty(c) \/ IsDone(c) \/ TimeOut(c)
  \/ UNCHANGED vars

LEMMA AsideKeeps ==
  ASSUME TypeOK, Aside PROVE UNCHANGED <<wire, inbound, acks, peer, ackDropped>>
<1>1. CASE RxCheck \/ RxEof \/ RxHandover \/ RxPut \/ RxClosed \/ HbFire \/ HbStop
  BY <1>1 DEF RxCheck, RxEof, RxHandover, RxPut, RxClosed, RxFail, HbFire, HbStop,
     netVars, queueVars
<1>2. CASE \E t \in Threads : Close(t)
  BY <1>2, WaitClose DEF netVars, queueVars
<1>3. CASE \E c \in Callers : AppCall(c) \/ TakePush(c) \/ QueueEmpty(c) \/ IsDone(c)
                                \/ TimeOut(c)
  BY <1>3 DEF AppCall, CallSetAlias, CallWait, CallClose, Call, TakePush, QueueEmpty,
     IsDone, TimeOut, netVars, queueVars
<1>4. CASE UNCHANGED vars
  BY <1>4 DEF vars, netVars, queueVars
<1> QED BY <1>1, <1>2, <1>3, <1>4 DEF Aside

LEMMA CountAside ==
  ASSUME TypeInv, TypeInv', Counted, Aside,
         gaveUp' => ~(\E c \in Callers : IsDone(c) \/ TimeOut(c))
  PROVE  Counted'
<1>1. UNCHANGED <<Waiting, gaveUp>>
  <2>1. CASE UNCHANGED vars
    BY <2>1 DEF vars, callVars, Waiting
  <2>2. CASE gaveUp' /\ Aside
    BY <2>1, <2>2, WaitReceiver, WaitClose, WaitCaller DEF Aside, TypeInv
  <2>3. CASE ~gaveUp' /\ Aside
    BY <2>1, <2>3, WaitReceiver, WaitClose, WaitCaller DEF Aside, TypeInv
  <2> QED BY <2>2, <2>3
<1> QED BY <1>1, AsideKeeps, CountKeep DEF TypeInv

\* A call that gives up ends the accounting.
LEMMA CountGiveUp ==
  ASSUME TypeInv, Counted, NEW c \in Callers, IsDone(c) \/ TimeOut(c), gaveUp'
  PROVE  Counted'
<1>1. Waiting' \in SUBSET Waiting
  <2>1. UNCHANGED op /\ pc[c] \in {"isdone", "get"}
    BY DEF IsDone, TimeOut
  <2>2. \A u \in Threads \ {c} : pc'[u] = pc[u]
    BY DEF IsDone, TimeOut, GiveUp, Return, Goto, TypeInv, TypeOK, ThreadsOK
  <2> QED BY <2>1, <2>2 DEF Waiting, Threads, Callers
<1>2. IsFiniteSet(Waiting')
  BY <1>1, FS_Subset DEF Counted
<1> QED BY <1>2 DEF Counted, NoneLeftOver, NoneMissing

\* A frame of the receiver: an alias answer moves to _acks, or is dropped there.
LEMMA CountReceive ==
  ASSUME TypeInv, TypeInv', Counted, RxPush \/ RxAck \/ RxJunk \/ RxShort
  PROVE  Counted'
<1> DEFINE f == Head(inbound)
           One == IF f \in AliasAnswers THEN 1 ELSE 0
<1>1. UNCHANGED <<Waiting, gaveUp>>
  BY WaitReceiver DEF TypeInv
<1>2. /\ inbound \in Seq(Frames) /\ inbound # <<>> /\ f \in Frames /\ inbound' = Tail(inbound)
      /\ acks \in Seq(AckFrames) /\ UNCHANGED <<wire, peer>>
  <2>1. inbound # <<>> /\ inbound' = Tail(inbound) /\ UNCHANGED <<wire, peer>>
    BY DEF RxPush, RxAck, RxJunk, RxShort, RxRecv
  <2> QED BY <2>1, HeadTailProperties DEF TypeInv, TypeOK, NetOK, QueuesOK
<1>3. HowMany(inbound, AliasAnswers) = HowMany(inbound', AliasAnswers) + One
  BY <1>2, CountTail
<1>4. /\ HowMany(inbound, AliasAnswers) \in Nat /\ HowMany(inbound', AliasAnswers) \in Nat
      /\ Due \in Nat /\ Cardinality(Waiting) \in Nat
  <2>1. inbound' \in Seq(Frames)
    BY <1>2, HeadTailProperties
  <2> QED BY <2>1, DueNat, WhereFinite, FS_CardinalityType DEF Counted
<1>5. CASE RxPush \/ RxJunk \/ RxShort
  <2>1. f.kind # "ack" /\ UNCHANGED <<acks, ackDropped>>
    BY <1>5 DEF RxPush, RxJunk, RxShort, RxRecv, RxFail, queueVars
  <2>2. One = 0
    BY <2>1 DEF AliasAnswers, AckFrames
  <2>3. HowMany(inbound', AliasAnswers) = HowMany(inbound, AliasAnswers)
    BY <1>3, <1>4, <2>2
  <2> QED BY <1>1, <1>2, <2>1, <2>3, CountKeep
<1>6. CASE RxAck
  <2>1. f.kind = "ack" /\ f \in AckFrames
    BY <1>2, <1>6 DEF RxAck, RxRecv, Frames, AckFrames
  <2>2. CASE Len(acks) < AckCap
    <3>1. acks' = Append(acks, f) /\ UNCHANGED ackDropped
      BY <1>6, <2>2 DEF RxAck
    <3>2. HowMany(acks', AliasAnswers) = HowMany(acks, AliasAnswers) + One
      BY <1>2, <2>1, <3>1, CountAppend
    <3>3. Due' = Due + 0
      <4> HIDE DEF f
      <4> QED BY <1>2, <1>3, <1>4, <3>2, DueNat DEF Due
    <3> QED BY <1>1, <1>2, <1>4, <3>1, <3>3, CountStep DEF Counted
  <2>3. CASE ~(Len(acks) < AckCap)
    <3>1. acks' = acks /\ ackDropped' = (ackDropped \/ f.cmd = "alias")
      BY <1>6, <2>3 DEF RxAck
    <3>2. ~ackDropped' => ~ackDropped /\ One = 0
      BY <2>1, <3>1 DEF AliasAnswers
    <3>3. Due' <= Due + 0 /\ (One = 0 => Due' = Due + 0)
      <4> HIDE DEF f
      <4> QED BY <1>2, <1>3, <1>4, <3>1, DueNat DEF Due
    <3> QED BY <1>1, <1>2, <1>4, <3>2, <3>3, CountStep DEF Counted
  <2> QED BY <2>2, <2>3
<1> QED BY <1>5, <1>6

\* An answer leaves _acks and ends the wait of the call that takes it.
LEMMA CountTake ==
  ASSUME TypeInv, TypeInv', LinesKnown, Counted, NEW c \in Callers, TakeAck(c)
  PROVE  Counted'
<1> DEFINE f == Head(acks)
           One == IF f \in AliasAnswers THEN 1 ELSE 0
<1>1. /\ op[c] = "alias" /\ pc[c] \in {"poll", "get"} /\ acks # <<>> /\ acks' = Tail(acks)
      /\ UNCHANGED <<wire, inbound, peer, op, gaveUp, ackDropped>>
  BY DEF TakeAck, netVars
<1>2. acks \in Seq(AckFrames) /\ acks' \in Seq(AckFrames) /\ f \in AckFrames
  BY <1>1, HeadTailProperties DEF TypeInv, TypeOK, QueuesOK
<1>3. HowMany(acks, AliasAnswers) = HowMany(acks', AliasAnswers) + One
  BY <1>1, <1>2, CountTail
<1>4. Due' = Due - One
  <2>1. HowMany(acks', AliasAnswers) \in Nat
    BY <1>2, WhereFinite
  <2> HIDE DEF f
  <2> QED BY <1>1, <1>3, <2>1, DueNat DEF Due
<1>5. c \in Waiting /\ Cardinality(Waiting) \in Nat
  BY <1>1, FS_CardinalityType DEF Waiting, LinesKnown, Counted
<1>6. IsFiniteSet(Waiting') /\ Cardinality(Waiting') = Cardinality(Waiting) - One
  <2>1. pc'[c] = (IF f \in AliasAnswers THEN "idle" ELSE "poll")
        /\ \A u \in Threads \ {c} : pc'[u] = pc[u]
    BY <1>2 DEF TakeAck, Return, Goto, AliasAnswers, TypeInv, TypeOK, ThreadsOK, Threads
  <2>2. CASE f \in AliasAnswers
    <3>1. Waiting' = Waiting \ {c}
      BY <1>1, <2>1, <2>2, ThreadFacts DEF Waiting, Callers
    <3> QED BY <1>5, <2>2, <3>1, FS_RemoveElement DEF Counted
  <2>3. CASE f \notin AliasAnswers
    <3>1. Waiting' = Waiting
      BY <1>1, <2>1, <2>3, ThreadFacts DEF Waiting, Callers
    <3> QED BY <1>5, <2>3, <3>1 DEF Counted
  <2> QED BY <2>2, <2>3
<1> HIDE DEF f
<1>7. -One \in Int /\ Due + (-One) = Due' /\ Cardinality(Waiting') = Cardinality(Waiting) + (-One)
  BY <1>4, <1>5, <1>6, DueNat
<1>8. Due' <= Due'
  BY <1>7, DueNat
<1> HIDE DEF One
<1> QED BY <1>1, <1>6, <1>7, <1>8, CountStep

\* The second half of an alias request starts the wait for its answer.
LEMMA CountWrite ==
  ASSUME TypeInv, TypeInv', LinesKnown, Counted, NEW t \in Threads, Write(t)
  PROVE  Counted'
<1> USE ThreadFacts
<1> DEFINE Half == [half |-> pc[t], kind |-> req[t].kind, rid |-> req[t].rid]
           Ends == pc[t] = "flush" /\ t \in Callers
<1>1. CASE AcquireWrite(t) \/ SendFails(t)
  <2>1. UNCHANGED <<gaveUp, wire, inbound, acks, peer, ackDropped>>
    BY <1>1 DEF AcquireWrite, SendFails, netVars, queueVars, callVars
  <2>2. UNCHANGED op /\ pc[t] \in {"lock", "send", "flush"}
        /\ pc'[t] \in {"send", "idle", "handover", "close"}
        /\ \A u \in Threads \ {t} : pc'[u] = pc[u]
    BY <1>1 DEF AcquireWrite, SendFails, Return, Goto, callVars, TypeInv, TypeOK, ThreadsOK
  <2>3. UNCHANGED Waiting
    BY <2>2 DEF Waiting, Threads, Callers
  <2> QED BY <2>1, <2>3, CountKeep
<1>2. CASE SendHalf(t)
  <2>1. /\ UNCHANGED <<op, gaveUp, inbound, acks, ackDropped>> /\ pc[t] \in {"send", "flush"}
        /\ \/ peer = "up" /\ wire' = Append(wire, Half) /\ UNCHANGED peer
           \/ peer = "fin" /\ peer' # "up" /\ UNCHANGED wire
    BY <1>2 DEF SendHalf, callVars
  <2>2. /\ pc'[t] = (IF pc[t] = "send" THEN "flush" ELSE AfterSend(t))
        /\ \A u \in Threads \ {t} : pc'[u] = pc[u]
    BY <1>2 DEF SendHalf, Sent, Goto, TypeInv, TypeOK, ThreadsOK
  <2>3. req[t].kind = Purpose(t) /\ (t \in Callers => op[t] = "alias" /\ t \in AliasCallers)
    BY <2>1 DEF LinesKnown, Writing
  <2>4. wire \in Seq(Halves) /\ Half \in Halves
    BY <2>1 DEF TypeInv, TypeOK, ThreadsOK, NetOK, Requests, Halves
  <2>5. Half \in Asked <=> Ends
    BY <2>1, <2>3, <2>4 DEF Asked, Purpose, Threads
  <2>6. peer = "up" =>
          HowMany(wire', Asked) = HowMany(wire, Asked) + (IF Ends THEN 1 ELSE 0)
    <3>1. peer = "up" => wire' = Append(wire, Half)
      BY <2>1
    <3> HIDE DEF Half, Ends
    <3>2. HowMany(Append(wire, Half), Asked)
            = HowMany(wire, Asked) + (IF Half \in Asked THEN 1 ELSE 0)
      BY <2>4, CountAppend
    <3> QED BY <2>5, <3>1, <3>2
  <2>7. /\ Due \in Nat /\ Cardinality(Waiting) \in Nat /\ HowMany(wire, Asked) \in Nat
        /\ HowMany(inbound, AliasAnswers) \in Nat /\ HowMany(acks, AliasAnswers) \in Nat
    BY DueNat, FS_CardinalityType DEF Counted
  <2>8. CASE Ends
    <3>1. t \notin Waiting /\ Waiting' = Waiting \union {t}
      BY <2>1, <2>2, <2>3, <2>8 DEF Waiting, AfterSend, Threads, Callers
    <3>2. IsFiniteSet(Waiting') /\ Cardinality(Waiting') = Cardinality(Waiting) + 1
      BY <3>1, FS_AddElement DEF Counted
    <3>3. Due' <= Due + 1 /\ (peer = "up" => Due' = Due + 1)
      <4> HIDE DEF Half
      <4> QED BY <2>1, <2>6, <2>7, <2>8 DEF Due
    <3>4. peer' = "up" => peer = "up"
      BY <2>1
    <3> HIDE DEF Half, Ends
    <3> QED BY <2>1, <3>2, <3>3, <3>4, CountStep
  <2>9. CASE ~Ends
    <3>1. Waiting' = Waiting
      BY <2>1, <2>2, <2>9 DEF Waiting, AfterSend, Threads, Callers
    <3>2. Due' = Due + 0
      <4> HIDE DEF Half
      <4> QED BY <2>1, <2>6, <2>7, <2>9 DEF Due
    <3>3. IsFiniteSet(Waiting') /\ Cardinality(Waiting') = Cardinality(Waiting) + 0
      BY <2>7, <3>1 DEF Counted
    <3>4. (peer' = "up" => peer = "up") /\ Due' <= Due + 0
      BY <2>1, <2>7, <3>2
    <3> HIDE DEF Half, Ends
    <3> QED BY <2>1, <3>2, <3>3, <3>4, CountStep
  <2> QED BY <2>8, <2>9
<1> QED BY <1>1, <1>2 DEF Write

\* Answers to one request, when there is none or one.
LEMMA CountAnswers ==
  ASSUME NEW S, NEW s \in Seq(S), NEW x \in S, NEW n \in {0, 1}, NEW K, x \in K
  PROVE  HowMany(s \o [i \in 1..n |-> x], K) = HowMany(s, K) + n
<1>1. HowMany(s, K) \in Nat
  BY WhereFinite
<1>2. CASE n = 0
  <2>1. [i \in 1..n |-> x] = <<>>
    BY <1>2
  <2>2. s \o <<>> = s
    BY ConcatEmptySeq
  <2> QED BY <1>1, <1>2, <2>1, <2>2
<1>3. CASE n = 1
  <2>1. [i \in 1..n |-> x] = <<x>>
    BY <1>3
  <2>2. s \o <<x>> = Append(s, x)
    BY AppendIsConcat
  <2>3. HowMany(Append(s, x), K) = HowMany(s, K) + 1
    BY CountAppend
  <2> QED BY <1>3, <2>1, <2>2, <2>3
<1> QED BY <1>2, <1>3

\* The server reads half a frame and answers a whole alias request.
LEMMA CountRead ==
  ASSUME TypeInv, TypeInv', Counted, SrvRead PROVE Counted'
<1> DEFINE h == Head(wire)
           Asking == h.half = "flush" /\ h.kind = "alias"
           Answer(s) == AckFrame("alias", s, h.rid)
<1>1. UNCHANGED <<Waiting, gaveUp, acks, ackDropped, peer>>
  BY WaitEnvironment DEF Environment, SrvRead
<1>2. /\ wire \in Seq(Halves) /\ wire # <<>> /\ wire' = Tail(wire) /\ h \in Halves
      /\ wire' \in Seq(Halves) /\ inbound \in Seq(Frames) /\ inbound' \in Seq(Frames)
  BY HeadTailProperties DEF SrvRead, TypeInv, TypeOK, NetOK
<1>3. h \in Asked <=> Asking
  BY <1>2 DEF Asked
<1>4. HowMany(wire, Asked) = HowMany(wire', Asked) + (IF Asking THEN 1 ELSE 0)
  <2> HIDE DEF Asking
  <2> QED BY <1>2, <1>3, CountTail
<1>5. /\ Due \in Nat /\ Cardinality(Waiting) \in Nat
      /\ HowMany(wire, Asked) \in Nat /\ HowMany(wire', Asked) \in Nat
      /\ HowMany(inbound, AliasAnswers) \in Nat /\ HowMany(inbound', AliasAnswers) \in Nat
      /\ HowMany(acks, AliasAnswers) \in Nat
  BY <1>2, DueNat, WhereFinite, FS_CardinalityType DEF Counted
<1>6. CASE ~Asking
  <2>1. inbound' = inbound
    BY <1>6 DEF SrvRead
  <2> HIDE DEF Asking
  <2>2. HowMany(wire', Asked) = HowMany(wire, Asked)
    BY <1>4, <1>5, <1>6
  <2> QED BY <1>1, <2>1, <2>2, CountKeep
<1>7. CASE Asking
  <2>1. PICK n \in Replies, s \in Statuses :
          inbound' = inbound \o [i \in 1..n |-> Answer(s)]
    BY <1>7 DEF SrvRead
  <2>2. Answer(s) \in AliasAnswers /\ Answer(s) \in Frames
    BY <1>2, NumbersAssumption DEF AckFrame, AliasAnswers, AckFrames, Frames, Halves
  <2>3. n \in {0, 1} =>
          HowMany(inbound', AliasAnswers) = HowMany(inbound, AliasAnswers) + n
    <3> HIDE DEF Answer, h
    <3> QED BY <1>2, <2>1, <2>2, CountAnswers
  <2> HIDE DEF Asking, Answer
  <2>4. n \in {0, 1} => Due' <= Due + 0 /\ (n = 1 => Due' = Due + 0)
    BY <1>1, <1>4, <1>5, <1>7, <2>3 DEF Due
  <2>5. (Replies \subseteq {0, 1} => n \in {0, 1}) /\ (Replies = {1} => n = 1)
    BY <2>1
  <2>6. Cardinality(Waiting') = Cardinality(Waiting) + 0 /\ IsFiniteSet(Waiting')
    BY <1>1, <1>5 DEF Counted
  <2> QED BY <1>1, <2>4, <2>5, <2>6, CountStep
<1> QED BY <1>6, <1>7

\* Pushes and noise are no alias answers.
LEMMA NoAnswer ==
  ASSUME SrvPush \/ \E kind \in Noise : SrvNoise(kind)
  PROVE  UNCHANGED <<wire, peer>> /\ \E f : f \notin AliasAnswers /\ inbound' = Append(inbound, f)
<1>1. CASE SrvPush
  BY <1>1 DEF SrvPush, PushFrame, AliasAnswers, AckFrames
<1>2. CASE \E kind \in Noise : SrvNoise(kind)
  <2>1. PICK kind \in Noise : SrvNoise(kind)
    BY <1>2
  <2> DEFINE f == IF kind = "other" THEN AckFrame("other", 0, 0) ELSE [kind |-> kind]
  <2>2. f \notin AliasAnswers
    BY NoiseAssumption DEF AckFrame, AliasAnswers, AckFrames
  <2>3. inbound' = Append(inbound, f) /\ UNCHANGED <<wire, peer>>
    BY <2>1 DEF SrvNoise
  <2> QED BY <2>2, <2>3
<1> QED BY <1>1, <1>2

LEMMA CountEnvironment ==
  ASSUME TypeInv, TypeInv', Counted, Environment PROVE Counted'
<1>1. UNCHANGED <<Waiting, gaveUp, acks, ackDropped>>
  BY WaitEnvironment
<1>2. wire \in Seq(Halves) /\ inbound \in Seq(Frames) /\ inbound' \in Seq(Frames)
  BY DEF TypeInv, TypeOK, NetOK
<1>3. /\ Due \in Nat /\ Cardinality(Waiting) \in Nat
      /\ HowMany(wire, Asked) \in Nat /\ HowMany(inbound', AliasAnswers) \in Nat
      /\ HowMany(inbound, AliasAnswers) \in Nat /\ HowMany(acks, AliasAnswers) \in Nat
  BY <1>2, DueNat, WhereFinite, FS_CardinalityType DEF Counted
<1>4. CASE SrvPush \/ \E kind \in Noise : SrvNoise(kind)
  <2>1. UNCHANGED <<wire, peer>> /\ \E f : f \notin AliasAnswers /\ inbound' = Append(inbound, f)
    BY <1>4, NoAnswer
  <2>2. PICK f : f \notin AliasAnswers /\ inbound' = Append(inbound, f)
    BY <2>1
  <2>3. inbound \in Seq(Frames \union {f}) /\ f \in Frames \union {f}
    BY <1>2, LenProperties, SeqDef
  <2>4. HowMany(inbound', AliasAnswers) = HowMany(inbound, AliasAnswers)
    BY <1>3, <2>2, <2>3, CountAppend
  <2> QED BY <1>1, <2>1, <2>4, CountKeep
<1>5. CASE SrvRead
  BY <1>5, CountRead
<1>6. CASE PeerFin \/ PeerReset
  <2>1. wire' = <<>> /\ peer' # "up"
    BY <1>6 DEF PeerFin, PeerReset, PeerGone
  <2>2. HowMany(inbound', AliasAnswers) <= HowMany(inbound, AliasAnswers)
    <3>1. CASE PeerFin
      BY <1>3, <3>1 DEF PeerFin
    <3>2. CASE PeerReset
      <4>1. PICK n \in 0..Len(inbound) : inbound' = SubSeq(inbound, 1, n)
        BY <3>2 DEF PeerReset
      <4> QED BY <1>2, <4>1, CountFront
    <3> QED BY <1>6, <3>1, <3>2
  <2>3. HowMany(wire', Asked) = 0
    BY <2>1, CountEmpty
  <2>4. Due' <= Due + 0
    BY <1>1, <1>3, <2>2, <2>3 DEF Due
  <2>5. Cardinality(Waiting') = Cardinality(Waiting) + 0 /\ IsFiniteSet(Waiting')
    BY <1>1, <1>3 DEF Counted
  <2> QED BY <1>1, <2>1, <2>4, <2>5, CountStep
<1> QED BY <1>4, <1>5, <1>6 DEF Environment

LEMMA AnswerNext ==
  ASSUME TypeInv, TypeInv', AnswerInv, [Next]_vars PROVE AnswerInv'
<1>1. LinesKnown'
  BY KnownNext DEF AnswerInv, TypeInv
<1>2. Counted'
  <2> USE DEF AnswerInv, Counted
  <2>1. CASE \E t \in Threads : Write(t)
    BY <2>1, CountWrite
  <2>2. CASE RxPush \/ RxAck \/ RxJunk \/ RxShort
    BY <2>2, CountReceive
  <2>3. CASE \E c \in Callers : TakeAck(c)
    BY <2>3, CountTake
  <2>4. CASE Environment
    BY <2>4, CountEnvironment
  <2>5. CASE Aside
    BY <2>5, CountGiveUp, CountAside
  <2> HIDE DEF AnswerInv, Counted
  <2>6. CASE RxStep \/ RxClosed \/ HbStep
    BY <2>1, <2>2, <2>5, <2>6, ThreadFacts DEF RxStep, HbStep, Aside
  <2>7. CASE \E c \in Callers : CallerStep(c) \/ AppCall(c)
    BY <2>1, <2>3, <2>5, <2>7, ThreadFacts DEF CallerStep, Aside
  <2> QED BY <2>4, <2>5, <2>6, <2>7 DEF Next, Aside
<1> QED BY <1>1, <1>2 DEF AnswerInv, Counted

LEMMA AnswerInvariant == Spec => []AnswerInv
<1>1. TypeInv /\ TypeInv' /\ AnswerInv /\ [Next]_vars => AnswerInv'
  BY AnswerNext
<1> QED BY AnswerInit, TypeInvariant, <1>1, PTL DEF Spec

\* While no call gives up, no answer is dropped and every request gets one, as
\* many answers are due as calls wait for one, for any number of threads in
\* set_alias: taking each other's answers costs no call its own.
THEOREM AnswersSuffice == Spec => []AnswersForAll
<1>1. TypeInv /\ AnswerInv => AnswersForAll
  BY AnswersCounted DEF AnswerInv, NoneMissing, AnswersForAll
<1> QED BY TypeInvariant, AnswerInvariant, <1>1, PTL

(***************************************************************************)
(* Whose answer.  With one thread in set_alias and at most one answer to a *)
(* request, the ids of the answers due are all that of the thread's last   *)
(* request: it makes the next one only when none is due any more.          *)
(***************************************************************************)
IdsIn(s, K) == {s[i].rid : i \in Where(s, K)}
DueIds == IdsIn(wire, Asked) \union IdsIn(inbound, AliasAnswers)
            \union IdsIn(acks, AliasAnswers)
OwnAnswers == ~gaveUp => \A r \in DueIds, c \in AliasCallers : r = req[c].rid

LEMMA IdsAppend ==
  ASSUME NEW S, NEW s \in Seq(S), NEW x \in S, NEW K
  PROVE  IdsIn(Append(s, x), K) \subseteq
           IdsIn(s, K) \union (IF x \in K THEN {x.rid} ELSE {})
<1>1. /\ Len(s) \in Nat /\ DOMAIN s = 1..Len(s) /\ DOMAIN Append(s, x) = 1..(Len(s) + 1)
      /\ Append(s, x)[Len(s) + 1] = x /\ \A i \in 1..Len(s) : Append(s, x)[i] = s[i]
  BY LenProperties, AppendProperties
<1> QED BY <1>1 DEF IdsIn, Where

LEMMA IdsTail ==
  ASSUME NEW S, NEW s \in Seq(S), s # <<>>, NEW K
  PROVE  /\ IdsIn(Tail(s), K) \subseteq IdsIn(s, K)
         /\ Head(s) \in K => Head(s).rid \in IdsIn(s, K)
<1>1. /\ Len(s) \in Nat /\ Len(s) > 0 /\ DOMAIN s = 1..Len(s)
      /\ DOMAIN Tail(s) = 1..(Len(s) - 1) /\ Head(s) = s[1]
      /\ \A i \in 1..(Len(s) - 1) : Tail(s)[i] = s[i + 1]
  BY HeadTailProperties, LenProperties, EmptySeq
<1>2. IdsIn(Tail(s), K) \subseteq IdsIn(s, K)
  <2> SUFFICES ASSUME NEW i \in Where(Tail(s), K) PROVE Tail(s)[i].rid \in IdsIn(s, K)
    BY DEF IdsIn
  <2>1. i + 1 \in Where(s, K) /\ Tail(s)[i] = s[i + 1]
    BY <1>1 DEF Where
  <2> QED BY <2>1 DEF IdsIn
<1> QED BY <1>1, <1>2 DEF IdsIn, Where

LEMMA IdsFront ==
  ASSUME NEW S, NEW s \in Seq(S), NEW n \in 0..Len(s), NEW K
  PROVE  IdsIn(SubSeq(s, 1, n), K) \subseteq IdsIn(s, K)
<1>1. Len(s) \in Nat /\ DOMAIN s = 1..Len(s) /\ \A i \in 1..n : s[i] \in S
  BY LenProperties
<1>2. SubSeq(s, 1, n) \in Seq(S) /\ Len(SubSeq(s, 1, n)) = n
      /\ \A i \in 1..n : SubSeq(s, 1, n)[i] = s[i]
  BY <1>1, SubSeqProperties
<1>3. DOMAIN SubSeq(s, 1, n) = 1..n
  BY <1>2, LenProperties
<1> QED BY <1>1, <1>2, <1>3 DEF IdsIn, Where

LEMMA IdsAnswers ==
  ASSUME NEW S, NEW s \in Seq(S), NEW x \in S, NEW n \in Nat, NEW K
  PROVE  IdsIn(s \o [i \in 1..n |-> x], K) \subseteq IdsIn(s, K) \union {x.rid}
<1> DEFINE a == [i \in 1..n |-> x]
<1>1. a \in Seq(S) /\ Len(a) = n
  BY SeqDef, LenProperties
<1>2. /\ Len(s) \in Nat /\ DOMAIN s = 1..Len(s) /\ DOMAIN (s \o a) = 1..(Len(s) + n)
      /\ \A i \in 1..(Len(s) + n) : (s \o a)[i] = IF i <= Len(s) THEN s[i] ELSE a[i - Len(s)]
  BY <1>1, LenProperties, ConcatProperties
<1>3. \A i \in 1..(Len(s) + n) : i > Len(s) => (s \o a)[i] = x
  BY <1>2
<1> HIDE DEF a
<1> QED BY <1>2, <1>3 DEF IdsIn, Where

\* No call waits for an answer: none is due.
LEMMA NoneDue ==
  ASSUME TypeInv, AnswerInv, Replies \subseteq {0, 1}, ~gaveUp, Waiting = {}
  PROVE  DueIds = {}
<1>1. Cardinality(Waiting) = 0
  BY FS_EmptySet
<1>2. /\ HowMany(wire, Asked) = 0 /\ HowMany(inbound, AliasAnswers) = 0
      /\ HowMany(acks, AliasAnswers) = 0
  BY <1>1, DueNat DEF AnswerInv, NoneLeftOver, Due
<1>3. wire \in Seq(Halves) /\ inbound \in Seq(Frames) /\ acks \in Seq(AckFrames)
  BY DEF TypeInv, TypeOK, NetOK, QueuesOK
<1>4. Where(wire, Asked) = {} /\ Where(inbound, AliasAnswers) = {}
      /\ Where(acks, AliasAnswers) = {}
  BY <1>2, <1>3, WhereFinite
<1> QED BY <1>4 DEF DueIds, IdsIn

LEMMA OwnKeep ==
  ASSUME OwnAnswers, ~gaveUp' => ~gaveUp, \A c \in AliasCallers : req'[c] = req[c],
         DueIds' \subseteq DueIds
  PROVE  OwnAnswers'
BY DEF OwnAnswers

\* A new request, or one that could not be sent: no answer is due.
LEMMA OwnRequest ==
  ASSUME TypeInv, AnswerInv, Replies \subseteq {0, 1}, \A c, d \in AliasCallers : c = d,
         NEW c \in AliasCallers, pc[c] \in {"idle", "send", "flush"},
         UNCHANGED <<wire, inbound, acks, gaveUp>>
  PROVE  OwnAnswers'
<1>1. Waiting = {}
  BY DEF Waiting
<1>2. ~gaveUp => DueIds = {}
  BY <1>1, NoneDue
<1>3. DueIds' = DueIds
  BY DEF DueIds
<1> QED BY <1>2, <1>3 DEF OwnAnswers

LEMMA OwnWrite ==
  ASSUME TypeInv, AnswerInv, OwnAnswers, Replies \subseteq {0, 1},
         \A c, d \in AliasCallers : c = d, NEW t \in Threads, Write(t)
  PROVE  OwnAnswers'
<1> USE ThreadFacts
<1>1. CASE AcquireWrite(t)
  BY <1>1, OwnKeep DEF AcquireWrite, netVars, queueVars, callVars, DueIds
<1>2. CASE SendFails(t)
  <2>1. UNCHANGED <<wire, inbound, acks, gaveUp>> /\ pc[t] \in {"send", "flush"}
        /\ \A u \in Threads \ {t} : req'[u] = req[u]
    BY <1>2 DEF SendFails, netVars, queueVars, TypeInv, TypeOK, ThreadsOK
  <2>2. CASE t \in AliasCallers
    BY <2>1, <2>2, OwnRequest
  <2>3. CASE t \notin AliasCallers
    BY <2>1, <2>3, OwnKeep DEF DueIds, Threads, Callers
  <2> QED BY <2>2, <2>3
<1>3. CASE SendHalf(t)
  <2> DEFINE half == [half |-> pc[t], kind |-> req[t].kind, rid |-> req[t].rid]
  <2>1. /\ UNCHANGED <<gaveUp, inbound, acks>> /\ pc[t] \in {"send", "flush"}
        /\ wire' = Append(wire, half) \/ UNCHANGED wire
    BY <1>3 DEF SendHalf, callVars
  <2>2. \A c \in AliasCallers : req'[c] = req[c]
    BY <1>3 DEF SendHalf, Sent, TypeInv, TypeOK, ThreadsOK, Threads, Callers
  <2>3. wire \in Seq(Halves) /\ half \in Halves
    BY <2>1 DEF TypeInv, TypeOK, ThreadsOK, NetOK, Requests, Halves
  <2>4. half \in Asked => t \in AliasCallers /\ half.rid = req[t].rid
    BY <2>1 DEF AnswerInv, LinesKnown, Writing, Purpose, Asked, Threads
  <2> HIDE DEF half
  <2>5. DueIds' \subseteq DueIds \union (IF half \in Asked THEN {half.rid} ELSE {})
    BY <2>1, <2>3, IdsAppend DEF DueIds
  <2> QED BY <2>1, <2>2, <2>4, <2>5 DEF OwnAnswers
<1> QED BY <1>1, <1>2, <1>3 DEF Write

LEMMA OwnRead == ASSUME TypeInv, OwnAnswers, SrvRead PROVE OwnAnswers'
<1> DEFINE h == Head(wire)
           Answer(s) == AckFrame("alias", s, h.rid)
<1>1. UNCHANGED <<req, gaveUp, acks>>
  BY DEF SrvRead, callVars, queueVars
<1>2. /\ wire \in Seq(Halves) /\ wire # <<>> /\ wire' = Tail(wire) /\ h \in Halves
      /\ inbound \in Seq(Frames)
  BY HeadTailProperties DEF SrvRead, TypeInv, TypeOK, NetOK
<1>3. IdsIn(wire', Asked) \subseteq IdsIn(wire, Asked)
      /\ (h \in Asked => h.rid \in IdsIn(wire, Asked))
  BY <1>2, IdsTail
<1>4. CASE UNCHANGED inbound
  BY <1>1, <1>3, <1>4, OwnKeep DEF DueIds
<1>5. CASE ~UNCHANGED inbound
  <2>1. h \in Asked
    BY <1>2, <1>5 DEF SrvRead, Asked
  <2>2. PICK n \in Replies, s \in Statuses :
          inbound' = inbound \o [i \in 1..n |-> Answer(s)]
    BY <1>5 DEF SrvRead
  <2>3. Answer(s) \in Frames /\ Answer(s).rid = h.rid /\ n \in Nat
    BY <1>2, NumbersAssumption DEF AckFrame, AckFrames, Frames, Halves
  <2>4. IdsIn(inbound', AliasAnswers) \subseteq IdsIn(inbound, AliasAnswers) \union {h.rid}
    <3> HIDE DEF Answer, h
    <3> QED BY <1>2, <2>2, <2>3, IdsAnswers
  <2>5. DueIds' \subseteq DueIds
    BY <1>1, <1>3, <2>1, <2>4 DEF DueIds
  <2> QED BY <1>1, <2>5, OwnKeep
<1> QED BY <1>4, <1>5

LEMMA OwnEnvironment == ASSUME TypeInv, OwnAnswers, Environment PROVE OwnAnswers'
<1>1. UNCHANGED <<req, gaveUp, acks>> /\ inbound \in Seq(Frames)
  BY DEF Environment, SrvNoise, SrvPush, SrvRead, PeerFin, PeerReset, PeerGone, callVars,
     queueVars, TypeInv, TypeOK, NetOK
<1>2. CASE SrvPush \/ \E kind \in Noise : SrvNoise(kind)
  <2>1. UNCHANGED wire /\ \E f : f \notin AliasAnswers /\ inbound' = Append(inbound, f)
    BY <1>2, NoAnswer
  <2>2. PICK f : f \notin AliasAnswers /\ inbound' = Append(inbound, f)
    BY <2>1
  <2>3. inbound \in Seq(Frames \union {f}) /\ f \in Frames \union {f}
    BY <1>1, LenProperties, SeqDef
  <2>4. IdsIn(inbound', AliasAnswers) \subseteq IdsIn(inbound, AliasAnswers)
    BY <2>2, <2>3, IdsAppend
  <2>5. DueIds' \subseteq DueIds
    BY <1>1, <2>1, <2>4 DEF DueIds
  <2> QED BY <1>1, <2>5, OwnKeep
<1>3. CASE PeerFin \/ PeerReset
  <2>1. IdsIn(wire', Asked) = {}
    BY <1>3 DEF PeerFin, PeerReset, PeerGone, IdsIn, Where
  <2>2. IdsIn(inbound', AliasAnswers) \subseteq IdsIn(inbound, AliasAnswers)
    <3>1. CASE PeerFin
      BY <3>1 DEF PeerFin
    <3>2. CASE PeerReset
      <4>1. PICK n \in 0..Len(inbound) : inbound' = SubSeq(inbound, 1, n)
        BY <3>2 DEF PeerReset
      <4> QED BY <1>1, <4>1, IdsFront
    <3> QED BY <1>3, <3>1, <3>2
  <2>3. DueIds' \subseteq DueIds
    BY <1>1, <2>1, <2>2 DEF DueIds
  <2> QED BY <1>1, <2>3, OwnKeep
<1> QED BY <1>2, <1>3, OwnRead DEF Environment

LEMMA OwnQueue ==
  ASSUME TypeInv, OwnAnswers,
         \/ RxPush \/ RxAck \/ RxJunk \/ RxShort \/ \E c \in Callers : TakeAck(c)
  PROVE  OwnAnswers'
<1> USE ThreadFacts
<1>1. UNCHANGED <<gaveUp, wire>> /\ \A c \in AliasCallers : req'[c] = req[c]
  <2>1. CASE RxPush
    BY <2>1 DEF RxPush, RxRecv, Encode, callVars, TypeInv, TypeOK, ThreadsOK, Callers, Threads
  <2>2. CASE RxAck \/ RxJunk \/ RxShort
    BY <2>2 DEF RxAck, RxJunk, RxShort, RxFail, RxRecv, callVars
  <2>3. CASE \E c \in Callers : TakeAck(c)
    BY <2>3 DEF TakeAck, netVars
  <2> QED BY <2>1, <2>2, <2>3
<1>2. inbound \in Seq(Frames) /\ acks \in Seq(AckFrames)
  BY DEF TypeInv, TypeOK, NetOK, QueuesOK
<1>3. CASE \E c \in Callers : TakeAck(c)
  <2>1. acks # <<>> /\ acks' = Tail(acks) /\ inbound' = inbound
    BY <1>3 DEF TakeAck, netVars
  <2>2. IdsIn(acks', AliasAnswers) \subseteq IdsIn(acks, AliasAnswers)
    BY <1>2, <2>1, IdsTail
  <2>3. DueIds' \subseteq DueIds
    BY <1>1, <2>1, <2>2 DEF DueIds
  <2> QED BY <1>1, <2>3, OwnKeep
<1>4. CASE RxPush \/ RxAck \/ RxJunk \/ RxShort
  <2> DEFINE f == Head(inbound)
  <2>1. inbound # <<>> /\ inbound' = Tail(inbound) /\ f \in Frames
    <3>1. inbound # <<>> /\ inbound' = Tail(inbound)
      BY <1>4 DEF RxPush, RxAck, RxJunk, RxShort, RxRecv
    <3> QED BY <1>2, <3>1, HeadTailProperties
  <2>2. acks' = acks \/ (f \in AckFrames /\ acks' = Append(acks, f))
    BY <1>4, <2>1 DEF RxPush, RxAck, RxJunk, RxShort, RxFail, RxRecv, queueVars, Frames,
       AckFrames
  <2> HIDE DEF f
  <2>3. /\ IdsIn(inbound', AliasAnswers) \subseteq IdsIn(inbound, AliasAnswers)
        /\ f \in AliasAnswers => f.rid \in IdsIn(inbound, AliasAnswers)
    BY <1>2, <2>1, IdsTail DEF f
  <2>4. IdsIn(acks', AliasAnswers) \subseteq
          IdsIn(acks, AliasAnswers) \union IdsIn(inbound, AliasAnswers)
    BY <1>2, <2>2, <2>3, IdsAppend
  <2>5. DueIds' \subseteq DueIds
    BY <1>1, <2>3, <2>4 DEF DueIds
  <2> QED BY <1>1, <2>5, OwnKeep
<1> QED BY <1>3, <1>4

LEMMA OwnAside ==
  ASSUME TypeInv, AnswerInv, OwnAnswers, Replies \subseteq {0, 1},
         \A c, d \in AliasCallers : c = d, Aside
  PROVE  OwnAnswers'
<1> USE ThreadFacts
<1>1. DueIds' = DueIds
  BY AsideKeeps DEF TypeInv, DueIds
<1>2. CASE \E c \in Callers : CallSetAlias(c)
  <2>1. PICK c \in Callers : CallSetAlias(c)
    BY <1>2
  <2>2. c \in AliasCallers /\ pc[c] = "idle" /\ UNCHANGED gaveUp
    BY <2>1 DEF CallSetAlias, Call
  <2>3. UNCHANGED <<wire, inbound, acks>>
    BY AsideKeeps DEF TypeInv
  <2> QED BY <2>2, <2>3, OwnRequest
<1>3. CASE ~(\E c \in Callers : CallSetAlias(c))
  <2>1. (~gaveUp' => ~gaveUp) /\ \A c \in AliasCallers : req'[c] = req[c]
    <3>1. CASE RxCheck \/ RxEof \/ RxHandover \/ RxPut \/ RxClosed
      BY <3>1 DEF RxCheck, RxEof, RxHandover, RxPut, RxClosed, RxFail, callVars
    <3>2. CASE HbFire \/ HbStop
      BY <3>2 DEF HbFire, HbStop, Encode, callVars, TypeInv, TypeOK, ThreadsOK, Callers, Threads
    <3>3. CASE \E t \in Threads : Close(t)
      BY <3>3 DEF Close, CloseEnter, CloseSetDone, CloseSocket, callVars
    <3>4. CASE \E c \in Callers : AppCall(c)
      BY <1>3, <3>4 DEF AppCall, CallWait, CallClose, Call
    <3>5. CASE \E c \in Callers : TakePush(c) \/ QueueEmpty(c) \/ IsDone(c) \/ TimeOut(c)
      BY <3>5 DEF TakePush, QueueEmpty, IsDone, TimeOut, GiveUp, callVars
    <3>6. CASE UNCHANGED vars
      BY <3>6 DEF vars, callVars
    <3> QED BY <3>1, <3>2, <3>3, <3>4, <3>5, <3>6 DEF Aside
  <2> QED BY <1>1, <2>1, OwnKeep
<1> QED BY <1>2, <1>3

LEMMA OwnNext ==
  ASSUME TypeInv, AnswerInv, OwnAnswers, Replies \subseteq {0, 1},
         \A c, d \in AliasCallers : c = d, [Next]_vars
  PROVE  OwnAnswers'
<1> USE ThreadFacts
<1>1. CASE RxStep \/ RxClosed \/ HbStep
  BY <1>1, OwnWrite, OwnQueue, OwnAside DEF RxStep, HbStep, Aside
<1>2. CASE \E c \in Callers : CallerStep(c) \/ AppCall(c)
  BY <1>2, OwnWrite, OwnQueue, OwnAside DEF CallerStep, Aside
<1>3. CASE Environment \/ UNCHANGED vars
  BY <1>3, OwnEnvironment, OwnAside DEF Aside
<1> QED BY <1>1, <1>2, <1>3 DEF Next

\* An alias call is decided by an answer at the head of _acks, and by no other step.
AnswerDecides ==
  \A c \in AliasCallers :
    op[c] = "alias" /\ result[c] = "none" /\ result'[c] \in {"ok", "rejected"} =>
      acks # <<>> /\ Head(acks).cmd = "alias"

LEMMA DecidedByAnswer == ASSUME TypeInv, AnswerInv, [Next]_vars PROVE AnswerDecides
<1> USE ThreadFacts DEF AnswerDecides, Callers
<1>1. CASE \E c \in Callers : TakeAck(c)
  BY <1>1 DEF TakeAck, Return, TypeInv, TypeOK, CallsOK
<1>2. CASE \E t \in Threads : Write(t)
  BY <1>2 DEF Write, AcquireWrite, SendHalf, SendFails, Return, callVars, TypeInv, TypeOK,
     CallsOK
<1>3. CASE \E t \in Threads : Close(t)
  BY <1>3 DEF Close, CloseEnter, CloseSetDone, CloseSocket, LeaveClose, Return, callVars,
     TypeInv, TypeOK, CallsOK, AnswerInv, LinesKnown, Closing
<1>4. CASE RxCheck \/ RxEof \/ RxHandover \/ RxPut \/ RxClosed \/ HbFire \/ HbStop
  BY <1>4 DEF RxCheck, RxEof, RxHandover, RxPut, RxClosed, HbFire, HbStop, callVars
<1>5. CASE RxPush \/ RxAck \/ RxJunk \/ RxShort
  BY <1>5 DEF RxPush, RxAck, RxJunk, RxShort, RxRecv, callVars
<1>6. CASE \E c \in Callers : AppCall(c)
  BY <1>6 DEF AppCall, CallSetAlias, CallWait, CallClose, Call, TypeInv, TypeOK, CallsOK
<1>7. CASE \E c \in Callers : TakePush(c) \/ QueueEmpty(c)
  BY <1>7 DEF TakePush, QueueEmpty, Return, callVars, TypeInv, TypeOK, CallsOK
<1>8. CASE \E c \in Callers : IsDone(c) \/ TimeOut(c)
  BY <1>8 DEF IsDone, TimeOut, GiveUp, Return, ClosedError, TypeInv, TypeOK, CallsOK, CloseOK
<1>9. CASE Environment \/ UNCHANGED vars
  BY <1>9 DEF Environment, SrvNoise, SrvPush, SrvRead, PeerFin, PeerReset, PeerGone,
     vars, callVars
<1> QED BY <1>1, <1>2, <1>3, <1>4, <1>5, <1>6, <1>7, <1>8, <1>9
        DEF Next, RxStep, HbStep, CallerStep

\* With one thread calling set_alias and at most one answer to a request, an alias
\* answer decides the call that asked for it until some call gives up waiting,
\* though the client compares no request id.
THEOREM AnswersTheirCall ==
  (\A c, d \in AliasCallers : c = d) /\ Replies \subseteq {0, 1} =>
    (Spec => AliasAnswersItsCall)
<1> SUFFICES ASSUME \A c, d \in AliasCallers : c = d, Replies \subseteq {0, 1}
             PROVE  Spec => AliasAnswersItsCall
  OBVIOUS
<1> DEFINE Decided ==
      \A c \in AliasCallers :
        op[c] = "alias" /\ result[c] = "none" /\ result'[c] \in {"ok", "rejected"}
          => gaveUp \/ Head(acks).rid = req[c].rid
<1>1. Init => OwnAnswers
  BY DEF Init, OwnAnswers, DueIds, IdsIn, Where
<1>2. TypeInv /\ AnswerInv /\ OwnAnswers /\ [Next]_vars => OwnAnswers'
  BY OwnNext
<1>3. TypeInv /\ AnswerInv /\ OwnAnswers /\ [Next]_vars => [Decided]_vars
  <2> SUFFICES ASSUME TypeInv, AnswerInv, OwnAnswers, [Next]_vars,
                      NEW c \in AliasCallers, op[c] = "alias", result[c] = "none",
                      result'[c] \in {"ok", "rejected"}, ~gaveUp
               PROVE  Head(acks).rid = req[c].rid
    OBVIOUS
  <2>1. acks # <<>> /\ Head(acks).cmd = "alias"
    BY DecidedByAnswer DEF AnswerDecides
  <2>2. acks \in Seq(AckFrames) /\ Head(acks) \in AliasAnswers
    BY <2>1, HeadTailProperties DEF TypeInv, TypeOK, QueuesOK, AliasAnswers
  <2>3. Head(acks).rid \in DueIds
    BY <2>1, <2>2, IdsTail DEF DueIds
  <2> QED BY <2>3 DEF OwnAnswers
<1>4. Spec => [][Decided]_vars
  BY <1>1, <1>2, <1>3, TypeInvariant, AnswerInvariant, PTL DEF Spec
<1> QED BY <1>4 DEF AliasAnswersItsCall
==============================================================================
