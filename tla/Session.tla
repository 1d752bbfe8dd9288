------------------------------ MODULE Session ------------------------------
(***************************************************************************)
(* A logged-in jpush.Client: the receiver thread, the heartbeat thread and *)
(* the application threads that call set_alias, wait_for_push, run and     *)
(* close, sharing one socket, two bounded queues and two locks.            *)
(*                                                                         *)
(* A step is a piece of a thread's code between two points where another   *)
(* thread can observe or disturb it: a lock, a queue, the done event, a    *)
(* send or a receive.  pc[t] names the line thread t is about to execute.  *)
(* sendall may hand a frame to the kernel piecemeal, so a frame is written *)
(* as two halves, either of which blocks while the socket has no room.     *)
(***************************************************************************)
EXTENDS Integers, Sequences, FiniteSets

CONSTANTS
  AliasCallers,  \* application threads that call set_alias
  PushCallers,   \* application threads that call wait_for_push or run
  Closers,       \* application threads that call close
  Statuses,      \* the status codes the server may answer set_alias with
  Replies,       \* how many alias answers one request may get
  Noise,         \* frames no call waits for: "junk", "short", "other"
  Timed,         \* subset of BOOLEAN: may a call have a deadline or not
  PushCap,       \* maxsize of _pushes (16 in the code)
  AckCap,        \* maxsize of _acks (16 in the code)
  SendRoom,      \* half frames the peer leaves unread before a send blocks
  MaxPushes,     \* bound: pushes the server sends
  MaxBeats,      \* bound: heartbeats over a healthy connection
  MaxCalls,      \* bound: API calls
  MaxNoise       \* bound: unexpected frames

Callers == AliasCallers \union PushCallers \union Closers
Rx == "rx"
Hb == "hb"
Threads == {Rx, Hb} \union Callers
Nobody == "nobody"

ASSUME ThreadsAssumption ==
  /\ {Rx, Hb, Nobody} \intersect Callers = {}
  /\ Timed \subseteq BOOLEAN
ASSUME NumbersAssumption ==
  /\ Statuses \subseteq Int /\ Replies \subseteq Nat
  /\ {PushCap, AckCap, SendRoom} \subseteq Nat \ {0}
  /\ {MaxPushes, MaxBeats, MaxCalls, MaxNoise} \subseteq Nat
ASSUME NoiseAssumption == Noise \subseteq {"junk", "short", "other"}

VARIABLES
  pc,          \* the line each thread is about to execute
  req,         \* the last request each thread encoded
  rid,         \* _rid
  writeLock,   \* holder of _write_lock
  closeLock,   \* holder of _close_lock
  done,        \* _done
  closeError,  \* _close_error, "none" for None
  conn,        \* this end of the socket: "open" or "closed"
  peer,        \* the other end: "up", "fin" (closed) or "rst" (gone)
  inbound,     \* frames on their way to the client
  wire,        \* half frames on their way to the server
  srvHalf,     \* rid of the frame the server has read half of, else 0
  pushes,      \* _pushes
  acks,        \* _acks
  op,          \* what each caller last called: "none", "alias", "push", "close"
  timed,       \* does that call have a deadline
  result,      \* how the last call of each caller ended
  received,    \* history: pushes decoded by the receiver
  acked,       \* history: push acknowledgements sent in full
  taken,       \* history: pushes taken out of _pushes by callers
  gaveUp,      \* history: some alias call ended without its answer
  ackDropped,  \* history: an alias answer met a full _acks
  env          \* what the environment has used of its bounds

lockVars == <<writeLock, closeLock>>
closeVars == <<done, closeError, conn>>
netVars == <<peer, inbound, wire, srvHalf>>
queueVars == <<pushes, acks, received, acked, taken, ackDropped>>
callVars == <<op, timed, result, gaveUp>>
vars == <<pc, req, rid, lockVars, closeVars, netVars, queueVars, callVars, env>>

NoRequest == [kind |-> "none", rid |-> 0]
Requests == [kind : {"none", "beat", "alias", "pushack"}, rid : Nat]
Halves == [half : {"send", "flush"}, rid : Nat,
           kind : {"none", "beat", "alias", "pushack"}]
PushFrame(n) == [kind |-> "push", id |-> n]
AckFrame(cmd, status, r) ==
  [kind |-> "ack", cmd |-> cmd, status |-> status, rid |-> r]
AckFrames == [kind : {"ack"}, cmd : {"alias", "other"}, status : Int, rid : Nat]
Frames == [kind : {"push"}, id : Nat] \union AckFrames
            \union [kind : {"junk", "short"}]

Init ==
  /\ pc = [t \in Threads |-> IF t = Rx THEN "check"
                              ELSE IF t = Hb THEN "wait" ELSE "idle"]
  /\ req = [t \in Threads |-> NoRequest]
  /\ rid = 0
  /\ writeLock = Nobody /\ closeLock = Nobody
  /\ done = FALSE /\ closeError = "none" /\ conn = "open"
  /\ peer = "up" /\ inbound = <<>> /\ wire = <<>> /\ srvHalf = 0
  /\ pushes = <<>> /\ acks = <<>>
  /\ op = [c \in Callers |-> "none"]
  /\ timed = [c \in Callers |-> FALSE]
  /\ result = [c \in Callers |-> "none"]
  /\ received = <<>> /\ acked = 0 /\ taken = <<>>
  /\ gaveUp = FALSE /\ ackDropped = FALSE
  /\ env = [pushes |-> 0, beats |-> 0, calls |-> 0, noise |-> 0]

Goto(t, line) == pc' = [pc EXCEPT ![t] = line]
Return(c, how) == Goto(c, "idle") /\ result' = [result EXCEPT ![c] = how]
Use(what) == env' = [env EXCEPT ![what] = @ + 1]

-----------------------------------------------------------------------------
(* Writing one request: _next_rid, _write, _send_all.                      *)

\* Mutant: without _state_lock, one of two increments may be lost.
EncodeUnlocked(t, kind) ==
  /\ rid' \in {rid, rid + 1}
  /\ req' = [req EXCEPT ![t] = [kind |-> kind, rid |-> rid + 1]]
  /\ Goto(t, "lock")

\* Take the next request id and go on to _write.
Encode(t, kind) ==
  /\ rid' = rid + 1
  /\ req' = [req EXCEPT ![t] = [kind |-> kind, rid |-> rid + 1]]
  /\ Goto(t, "lock")

\* Mutant: _write forgets _write_lock.
AcquireNothing(t) ==
  /\ pc[t] = "lock"
  /\ writeLock' = t
  /\ Goto(t, "send")
  /\ UNCHANGED <<req, rid, closeLock, closeVars, netVars, queueVars, callVars, env>>

AcquireWrite(t) ==
  /\ pc[t] = "lock" /\ writeLock = Nobody
  /\ writeLock' = t
  /\ Goto(t, "send")
  /\ UNCHANGED <<req, rid, closeLock, closeVars, netVars, queueVars, callVars, env>>

\* Where a thread goes when its request is on the wire: the receiver to the
\* push it acknowledged, the heartbeat to its next wait, set_alias to _next_ack.
AfterSend(t) == IF t = Rx THEN "handover" ELSE IF t = Hb THEN "wait" ELSE "poll"

\* A whole frame is written: the lock is released and, except for the request
\* a caller waits on, the frame is forgotten.
Sent(t) ==
  /\ writeLock' = Nobody
  /\ Goto(t, AfterSend(t))
  /\ req' = IF t \in Callers THEN req ELSE [req EXCEPT ![t] = NoRequest]
  /\ acked' = IF t = Rx /\ peer = "up" THEN acked + 1 ELSE acked

\* Half a frame reaches the kernel.  A peer that is gone swallows the first
\* frame sent to it and answers with a reset.
SendHalf(t) ==
  /\ pc[t] \in {"send", "flush"} /\ conn = "open" /\ peer # "rst"
  /\ \/ /\ peer = "up" /\ Len(wire) < SendRoom
        /\ wire' = Append(wire, [half |-> pc[t], kind |-> req[t].kind,
                                 rid |-> req[t].rid])
        /\ UNCHANGED peer
     \/ /\ peer = "fin"
        /\ peer' = IF pc[t] = "flush" THEN "rst" ELSE "fin"
        /\ UNCHANGED wire
  /\ IF pc[t] = "send"
     THEN Goto(t, "flush") /\ UNCHANGED <<writeLock, req, acked>>
     ELSE Sent(t)
  /\ UNCHANGED <<rid, closeLock, closeVars, inbound, srvHalf, pushes, acks,
                 received, taken, ackDropped, callVars, env>>

\* Mutant: a failed send leaves _write_lock taken.
SendFailsLocked(t) ==
  /\ pc[t] \in {"send", "flush"} /\ (conn = "closed" \/ peer = "rst")
  /\ IF t \in Callers
     THEN Return(t, "sendfailed")
     ELSE Goto(t, IF t = Rx THEN "handover" ELSE "close") /\ UNCHANGED result
  /\ req' = [req EXCEPT ![t] = NoRequest]
  /\ UNCHANGED <<rid, lockVars, closeVars, netVars, queueVars, op, timed,
                 gaveUp, env>>

\* Mutant: a failed heartbeat ends its thread and leaves the client open.
SendFailsOpen(t) ==
  /\ pc[t] \in {"send", "flush"} /\ (conn = "closed" \/ peer = "rst")
  /\ writeLock' = Nobody
  /\ IF t \in Callers
     THEN Return(t, "sendfailed")
     ELSE Goto(t, IF t = Rx THEN "handover" ELSE "dead") /\ UNCHANGED result
  /\ req' = [req EXCEPT ![t] = NoRequest]
  /\ UNCHANGED <<rid, closeLock, closeVars, netVars, queueVars, op, timed,
                 gaveUp, env>>

\* sendall raises.  An unsent push acknowledgement is only logged, an unsent
\* heartbeat closes the client, an unsent alias request fails the call.
SendFails(t) ==
  /\ pc[t] \in {"send", "flush"} /\ (conn = "closed" \/ peer = "rst")
  /\ writeLock' = Nobody
  /\ IF t \in Callers
     THEN Return(t, "sendfailed")
     ELSE Goto(t, IF t = Rx THEN "handover" ELSE "close") /\ UNCHANGED result
  /\ req' = [req EXCEPT ![t] = NoRequest]
  /\ UNCHANGED <<rid, closeLock, closeVars, netVars, queueVars, op, timed,
                 gaveUp, env>>

-----------------------------------------------------------------------------
(* _close, run by whichever thread got there: the receiver after a failed  *)
(* read, the heartbeat after a failed write, a caller of close().          *)

CauseOf(t) == IF t = Rx THEN "receive" ELSE IF t = Hb THEN "heartbeat" ELSE "none"

LeaveClose(t) ==
  IF t \in Callers THEN Return(t, "ok") ELSE Goto(t, "dead") /\ UNCHANGED result

\* Mutant: every closer goes on.
CloseEnterAgain(t) ==
  /\ pc[t] = "close" /\ closeLock = Nobody
  /\ closeLock' = t /\ closeError' = CauseOf(t)
  /\ Goto(t, "setdone")
  /\ UNCHANGED <<req, rid, writeLock, done, conn, netVars, queueVars, callVars, env>>

\* Mutant: the early return of a second closer keeps _close_lock.
CloseEnterHolds(t) ==
  /\ pc[t] = "close" /\ closeLock = Nobody
  /\ closeLock' = t
  /\ IF done
     THEN LeaveClose(t) /\ UNCHANGED closeError
     ELSE /\ closeError' = CauseOf(t)
          /\ Goto(t, "setdone") /\ UNCHANGED result
  /\ UNCHANGED <<req, rid, writeLock, done, conn, netVars, queueVars, op, timed,
                 gaveUp, env>>

\* Only the first closer goes on; it records its cause before setting _done.
CloseEnter(t) ==
  /\ pc[t] = "close" /\ closeLock = Nobody
  /\ IF done
     THEN LeaveClose(t) /\ UNCHANGED <<closeLock, closeError>>
     ELSE /\ closeLock' = t /\ closeError' = CauseOf(t)
          /\ Goto(t, "setdone") /\ UNCHANGED result
  /\ UNCHANGED <<req, rid, writeLock, done, conn, netVars, queueVars, op, timed,
                 gaveUp, env>>

CloseSetDone(t) ==
  /\ pc[t] = "setdone"
  /\ done' = TRUE
  /\ Goto(t, "shut")
  /\ UNCHANGED <<req, rid, lockVars, closeError, conn, netVars, queueVars,
                 callVars, env>>

\* Mutant: the socket is closed without _write_lock.
CloseSocketUnlocked(t) ==
  /\ pc[t] = "shut"
  /\ conn' = "closed" /\ closeLock' = Nobody
  /\ LeaveClose(t)
  /\ UNCHANGED <<req, rid, writeLock, done, closeError, netVars, queueVars, op,
                 timed, gaveUp, env>>

\* The socket is closed under _write_lock, then both locks are released.
CloseSocket(t) ==
  /\ pc[t] = "shut" /\ writeLock = Nobody
  /\ conn' = "closed" /\ closeLock' = Nobody
  /\ LeaveClose(t)
  /\ UNCHANGED <<req, rid, writeLock, done, closeError, netVars, queueVars, op,
                 timed, gaveUp, env>>

Close(t) == CloseEnter(t) \/ CloseSetDone(t) \/ CloseSocket(t)
Write(t) == AcquireWrite(t) \/ SendHalf(t) \/ SendFails(t)

-----------------------------------------------------------------------------
(* _read_loop and _ack_push.                                               *)

\* Mutant: the receiver does not look at _done between frames.
RxNoCheck ==
  /\ pc[Rx] = "check"
  /\ Goto(Rx, "recv")
  /\ UNCHANGED <<req, rid, lockVars, closeVars, netVars, queueVars, callVars, env>>

RxCheck ==
  /\ pc[Rx] = "check"
  /\ Goto(Rx, IF done THEN "dead" ELSE "recv")
  /\ UNCHANGED <<req, rid, lockVars, closeVars, netVars, queueVars, callVars, env>>

\* A read that was under way when the socket was closed may still return.
RxRecv(kinds) ==
  /\ pc[Rx] = "recv" /\ inbound # <<>> /\ Head(inbound).kind \in kinds
  /\ inbound' = Tail(inbound)
  /\ UNCHANGED <<lockVars, closeVars, peer, wire, srvHalf, callVars, env>>

\* Mutant: the push is queued and never acknowledged.
RxPushUnacked ==
  /\ RxRecv({"push"})
  /\ received' = Append(received, Head(inbound).id)
  /\ Goto(Rx, "handover")
  /\ UNCHANGED <<req, rid, pushes, acks, acked, taken, ackDropped>>

\* A push is acknowledged before it is queued.
RxPush ==
  /\ RxRecv({"push"})
  /\ received' = Append(received, Head(inbound).id)
  /\ Encode(Rx, "pushack")
  /\ UNCHANGED <<pushes, acks, acked, taken, ackDropped>>

\* put_nowait on a full _acks drops the answer.
RxAck ==
  /\ RxRecv({"ack"})
  /\ IF Len(acks) < AckCap
     THEN acks' = Append(acks, Head(inbound)) /\ UNCHANGED ackDropped
     ELSE /\ ackDropped' = (ackDropped \/ Head(inbound).cmd = "alias")
          /\ UNCHANGED acks
  /\ Goto(Rx, "check")
  /\ UNCHANGED <<req, rid, pushes, received, acked, taken>>

\* Mutant: a frame that does not decode ends the receiver (return, not continue).
RxJunkEnds ==
  /\ RxRecv({"junk"})
  /\ Goto(Rx, "dead")
  /\ UNCHANGED <<req, rid, queueVars>>

\* A frame that does not decode, or decodes to something else, is skipped.
RxJunk ==
  /\ RxRecv({"junk"})
  /\ Goto(Rx, "check")
  /\ UNCHANGED <<req, rid, queueVars>>

\* After a failed read the receiver closes the client, unless it is closed.
RxFail == 
  /\ Goto(Rx, IF done THEN "dead" ELSE "close")
  /\ UNCHANGED <<req, rid, queueVars>>

\* read_raw_frame refuses the length prefix.
RxShort == RxRecv({"short"}) /\ RxFail

\* End of stream, or a reset.
RxEof ==
  /\ pc[Rx] = "recv" /\ inbound = <<>> /\ peer # "up"
  /\ RxFail
  /\ UNCHANGED <<lockVars, closeVars, netVars, callVars, env>>

\* A read on the closed socket raises; one already blocked may stay blocked.
RxClosed ==
  /\ pc[Rx] = "recv" /\ conn = "closed"
  /\ RxFail
  /\ UNCHANGED <<lockVars, closeVars, netVars, callVars, env>>

\* while not done: put with a timeout of 0.1 s; a push in hand is given up
\* only here.
RxHandover ==
  /\ pc[Rx] = "handover"
  /\ Goto(Rx, IF done THEN "check" ELSE "put")
  /\ UNCHANGED <<req, rid, lockVars, closeVars, netVars, queueVars, callVars, env>>

\* Mutant: a full _pushes drops the push, as a full _acks drops an answer.
RxPutOrDrop ==
  /\ pc[Rx] = "put"
  /\ IF Len(pushes) < PushCap
     THEN pushes' = Append(pushes, received[Len(received)]) ELSE UNCHANGED pushes
  /\ Goto(Rx, "check")
  /\ UNCHANGED <<req, rid, lockVars, closeVars, netVars, acks, received, acked,
                 taken, ackDropped, callVars, env>>

\* Mutant: _pushes has no maxsize.
RxPutUnbounded ==
  /\ pc[Rx] = "put"
  /\ pushes' = Append(pushes, received[Len(received)])
  /\ Goto(Rx, "check")
  /\ UNCHANGED <<req, rid, lockVars, closeVars, netVars, acks, received, acked,
                 taken, ackDropped, callVars, env>>

RxPut ==
  /\ pc[Rx] = "put"
  /\ IF Len(pushes) < PushCap
     THEN pushes' = Append(pushes, received[Len(received)]) /\ Goto(Rx, "check")
     ELSE Goto(Rx, "handover") /\ UNCHANGED pushes
  /\ UNCHANGED <<req, rid, lockVars, closeVars, netVars, acks, received, acked,
                 taken, ackDropped, callVars, env>>

-----------------------------------------------------------------------------
(* _heartbeat_loop.                                                        *)

\* The interval passes with the client open.  Beats over a healthy connection
\* are bounded; a lost connection fails one of the next two and ends the loop.
HbFire ==
  /\ pc[Hb] = "wait" /\ ~done
  /\ env.beats < MaxBeats \/ peer # "up"
  /\ Encode(Hb, "beat")
  /\ env' = IF peer = "up" THEN [env EXCEPT !.beats = @ + 1] ELSE env
  /\ UNCHANGED <<lockVars, closeVars, netVars, queueVars, callVars>>

HbStop ==
  /\ pc[Hb] = "wait" /\ done
  /\ Goto(Hb, "dead")
  /\ UNCHANGED <<req, rid, lockVars, closeVars, netVars, queueVars, callVars, env>>

-----------------------------------------------------------------------------
(* The API: set_alias, wait_for_push and run, close.                       *)

Call(c, what) ==
  /\ pc[c] = "idle" /\ env.calls < MaxCalls
  /\ Use("calls")
  /\ op' = [op EXCEPT ![c] = what]
  /\ \E d \in Timed : timed' = [timed EXCEPT ![c] = d]
  /\ result' = [result EXCEPT ![c] = "none"]
  /\ UNCHANGED <<lockVars, closeVars, netVars, queueVars, gaveUp>>

CallSetAlias(c) == c \in AliasCallers /\ Call(c, "alias") /\ Encode(c, "alias")
CallWait(c) ==
  c \in PushCallers /\ Call(c, "push") /\ Goto(c, "poll") /\ UNCHANGED <<req, rid>>
CallClose(c) ==
  c \in Closers /\ Call(c, "close") /\ Goto(c, "close") /\ UNCHANGED <<req, rid>>

\* _next_queue looks for an item at get_nowait ("poll") and again in the timed
\* get ("get"); between the two it looks at _done and at the deadline.
QueueOf(c) == IF op[c] = "alias" THEN acks ELSE pushes

\* An item leaves _pushes.  A push that does not match, or that on_push
\* accepts without a result, sends the caller back for the next.
TakePush(c) ==
  /\ op[c] = "push" /\ pc[c] \in {"poll", "get"} /\ pushes # <<>>
  /\ taken' = Append(taken, Head(pushes))
  /\ pushes' = Tail(pushes)
  /\ Return(c, "push") \/ (Goto(c, "poll") /\ UNCHANGED result)
  /\ UNCHANGED <<req, rid, lockVars, closeVars, netVars, acks, received,
                 acked, ackDropped, op, timed, gaveUp, env>>

\* Mutant: any ack decides the call, whatever command it answers.
TakeAnyAck(c) ==
  /\ op[c] = "alias" /\ pc[c] \in {"poll", "get"} /\ acks # <<>>
  /\ acks' = Tail(acks)
  /\ Return(c, IF Head(acks).status > 0 THEN "rejected" ELSE "ok")
  /\ UNCHANGED <<req, rid, lockVars, closeVars, netVars, pushes, received, acked,
                 taken, ackDropped, op, timed, gaveUp, env>>

\* Mutant: a call skips the answers to other calls.
TakeOwnAck(c) ==
  /\ op[c] = "alias" /\ pc[c] \in {"poll", "get"} /\ acks # <<>>
  /\ acks' = Tail(acks)
  /\ IF Head(acks).cmd = "alias" /\ Head(acks).rid = req[c].rid
     THEN Return(c, IF Head(acks).status > 0 THEN "rejected" ELSE "ok")
     ELSE Goto(c, "poll") /\ UNCHANGED result
  /\ UNCHANGED <<req, rid, lockVars, closeVars, netVars, pushes, received, acked,
                 taken, ackDropped, op, timed, gaveUp, env>>

\* An item leaves _acks.  The first alias answer decides the call, whichever
\* request it answers; a status that is not positive counts as success.
TakeAck(c) ==
  /\ op[c] = "alias" /\ pc[c] \in {"poll", "get"} /\ acks # <<>>
  /\ acks' = Tail(acks)
  /\ IF Head(acks).cmd = "alias"
     THEN Return(c, IF Head(acks).status > 0 THEN "rejected" ELSE "ok")
     ELSE Goto(c, "poll") /\ UNCHANGED result
  /\ UNCHANGED <<req, rid, lockVars, closeVars, netVars, pushes, received, acked,
                 taken, ackDropped, op, timed, gaveUp, env>>

QueueEmpty(c) ==
  /\ pc[c] \in {"poll", "get"} /\ QueueOf(c) = <<>>
  /\ Goto(c, IF pc[c] = "poll" THEN "isdone" ELSE "poll")
  /\ UNCHANGED <<req, rid, lockVars, closeVars, netVars, queueVars, callVars, env>>

\* _closed_error: the cause the first closer left, or a ConnectionClosedError.
ClosedError == IF closeError = "none" THEN "closed" ELSE closeError

\* The call ends empty-handed; what the server still answers stays in the queue.
GiveUp(c, how) ==
  /\ Return(c, how)
  /\ gaveUp' = (gaveUp \/ op[c] = "alias")

IsDone(c) ==
  /\ pc[c] = "isdone"
  /\ IF done THEN GiveUp(c, ClosedError)
     ELSE Goto(c, "get") /\ UNCHANGED <<result, gaveUp>>
  /\ UNCHANGED <<req, rid, lockVars, closeVars, netVars, queueVars, op, timed, env>>

\* The deadline has passed.
TimeOut(c) ==
  /\ timed[c]
  /\ \/ pc[c] = "isdone" /\ ~done
     \/ pc[c] = "get" /\ QueueOf(c) = <<>>
  /\ GiveUp(c, "timeout")
  /\ UNCHANGED <<req, rid, lockVars, closeVars, netVars, queueVars, op, timed, env>>

-----------------------------------------------------------------------------
(* The server and the network.                                             *)

SrvPush ==
  /\ peer = "up" /\ env.pushes < MaxPushes
  /\ inbound' = Append(inbound, PushFrame(env.pushes + 1)) /\ Use("pushes")
  /\ UNCHANGED <<pc, req, rid, lockVars, closeVars, peer, wire, srvHalf,
                 queueVars, callVars>>

\* A frame the client cannot decode, one it does not even frame, or an ack of
\* some other command.
SrvNoise(kind) ==
  /\ peer = "up" /\ env.noise < MaxNoise
  /\ inbound' = Append(inbound, IF kind = "other" THEN AckFrame("other", 0, 0)
                                ELSE [kind |-> kind])
  /\ Use("noise")
  /\ UNCHANGED <<pc, req, rid, lockVars, closeVars, peer, wire, srvHalf,
                 queueVars, callVars>>

\* The server reads the next half frame.  A whole alias request is answered by
\* some number of acks (a CMD_ACK, a CMD_TAG_ALIAS, both) with its rid.
SrvRead ==
  /\ peer = "up" /\ wire # <<>>
  /\ wire' = Tail(wire)
  /\ LET h == Head(wire) IN
     /\ srvHalf' = IF h.half = "send" THEN h.rid ELSE 0
     /\ IF h.half = "flush" /\ h.kind = "alias"
        THEN \E n \in Replies, s \in Statuses :
               inbound' = inbound \o [i \in 1..n |-> AckFrame("alias", s, h.rid)]
        ELSE UNCHANGED inbound
  /\ UNCHANGED <<pc, req, rid, lockVars, closeVars, peer, queueVars, callVars, env>>

\* What the server has not read when it goes is lost.
PeerGone(how) ==
  /\ peer' = how /\ wire' = <<>> /\ srvHalf' = 0
  /\ UNCHANGED <<pc, req, rid, lockVars, closeVars, queueVars, callVars, env>>

\* The peer closes its end: what it sent before still arrives.
PeerFin == peer = "up" /\ PeerGone("fin") /\ UNCHANGED inbound

\* The connection is reset: what was still on its way may be lost.
PeerReset ==
  /\ peer # "rst" /\ PeerGone("rst")
  /\ \E n \in 0..Len(inbound) : inbound' = SubSeq(inbound, 1, n)

-----------------------------------------------------------------------------
RxStep ==
  \/ RxCheck \/ RxPush \/ RxAck \/ RxJunk \/ RxShort \/ RxEof
  \/ RxHandover \/ RxPut \/ Write(Rx) \/ Close(Rx)

HbStep == HbFire \/ HbStop \/ Write(Hb) \/ Close(Hb)

CallerStep(c) ==
  \/ Write(c) \/ Close(c)
  \/ TakePush(c) \/ TakeAck(c) \/ QueueEmpty(c) \/ IsDone(c) \/ TimeOut(c)

AppCall(c) == CallSetAlias(c) \/ CallWait(c) \/ CallClose(c)

Environment ==
  \/ \E kind \in Noise : SrvNoise(kind)
  \/ SrvPush \/ SrvRead \/ PeerFin \/ PeerReset

Next ==
  \/ RxStep \/ RxClosed \/ HbStep
  \/ \E c \in Callers : CallerStep(c) \/ AppCall(c)
  \/ Environment

Spec == Init /\ [][Next]_vars

\* The interpreter and the kernel schedule every thread that can move, timers
\* fire, and a connected peer goes on reading its socket.  Nothing is assumed
\* of the application, of the connection's end, or of a read that was blocked
\* when the socket was closed under it.
Fairness ==
  /\ WF_vars(RxStep) /\ WF_vars(HbStep) /\ WF_vars(SrvRead)
  /\ \A c \in Callers : WF_vars(CallerStep(c))
LiveSpec == Spec /\ Fairness

-----------------------------------------------------------------------------
(* What must hold.                                                         *)

Lines == {"check", "recv", "handover", "put", "wait", "dead", "idle", "poll",
          "isdone", "get", "lock", "send", "flush", "close", "setdone", "shut"}
Results == {"none", "ok", "rejected", "sendfailed", "timeout", "push", "closed",
            "receive", "heartbeat"}

ThreadsOK ==
  /\ pc \in [Threads -> Lines] /\ req \in [Threads -> Requests] /\ rid \in Nat
  /\ writeLock \in Threads \union {Nobody} /\ closeLock \in Threads \union {Nobody}
CloseOK ==
  /\ done \in BOOLEAN /\ closeError \in {"none", "receive", "heartbeat"}
  /\ conn \in {"open", "closed"}
NetOK ==
  /\ peer \in {"up", "fin", "rst"} /\ inbound \in Seq(Frames)
  /\ wire \in Seq(Halves) /\ srvHalf \in Nat
QueuesOK ==
  /\ pushes \in Seq(Nat) /\ Len(pushes) <= PushCap
  /\ acks \in Seq(AckFrames) /\ Len(acks) <= AckCap
  /\ received \in Seq(Nat) /\ acked \in Nat /\ taken \in Seq(Nat)
  /\ ackDropped \in BOOLEAN
CallsOK ==
  /\ op \in [Callers -> {"none", "alias", "push", "close"}]
  /\ timed \in [Callers -> BOOLEAN] /\ result \in [Callers -> Results]
  /\ gaveUp \in BOOLEAN
EnvOK == env \in [pushes : Nat, beats : Nat, calls : Nat, noise : Nat]

\* Every variable holds a value of its kind; the queues respect their maxsize.
TypeOK == ThreadsOK /\ CloseOK /\ NetOK /\ QueuesOK /\ CallsOK /\ EnvOK

\* What the server has still to read, the half it already has included.
Unread == IF srvHalf = 0 THEN wire
          ELSE <<[half |-> "send", kind |-> "none", rid |-> srvHalf]>> \o wire

\* Frames never interleave: the halves on the wire pair up, whichever threads
\* write them (_write_lock, client.py:336).
FramesWhole ==
  \A i \in 1..Len(Unread) :
    IF i % 2 = 1 THEN Unread[i].half = "send"
    ELSE Unread[i].half = "flush" /\ Unread[i].rid = Unread[i - 1].rid

\* Two requests under way never carry the same id (_state_lock, client.py:136).
RidsUnique ==
  \A t, u \in Threads :
    t # u /\ {pc[t], pc[u]} \subseteq {"lock", "send", "flush"} => req[t].rid # req[u].rid

\* close never cuts a frame short: if the connection is still up, the socket
\* is closed between two frames (_close takes _write_lock, client.py:466).
CloseNeverTears == conn = "closed" /\ peer = "up" => Len(Unread) % 2 = 0

\* The push the receiver has decoded but not yet queued.
InHand ==
  IF pc[Rx] \in {"lock", "send", "flush", "handover", "put"}
  THEN <<received[Len(received)]>> ELSE <<>>

\* Every push decoded is handed out exactly once and in order, queued, or in
\* the receiver's hand; only the last one can be lost, and only to a close
\* (the put loop of _read_loop, client.py:360).
PushAccounting ==
  \/ received = taken \o pushes \o InHand
  \/ /\ done /\ pc[Rx] \in {"check", "dead"} /\ received # <<>>
     /\ received = taken \o pushes \o <<received[Len(received)]>>

\* The push that was in hand when the client closed has been given up.
Lost == Len(received) > Len(taken) + Len(pushes) + Len(InHand)

\* The receiver, _pushes and the callers together are the stream of PushStream:
\* the queue and the receiver's hand hold what is accepted.
Stream == INSTANCE PushStream WITH
  Pushes <- 1..MaxPushes, Room <- PushCap + 1,
  buffer <- pushes \o InHand,
  phase <- IF ~done THEN "open" ELSE IF Lost THEN "ended" ELSE "closed"

\* The session implements PushStream: at most one push is ever lost, the last
\* one accepted, and only once the client is closed.
IsPushStream == Stream!Spec

\* Over a healthy connection a push is acknowledged to the server before any
\* caller can see it (_ack_push comes before put, client.py:359).
AckedFirst ==
  peer = "up" /\ conn = "open" => acked >= Len(taken) + Len(pushes)

\* A call that ends because the client closed reports what closed it first:
\* the cause is in place before _done is, and is never replaced.
ClosedErrorIsFirstCause ==
  \A c \in Callers : result[c] \in {"closed", "receive", "heartbeat"} =>
    done /\ result[c] = ClosedError

\* An alias answer decides the call that asked for it, until some call gives up
\* waiting; from then on every answer may be that of an earlier call, because
\* the client compares no rid (with one thread calling set_alias and at most
\* one answer to each request).
AliasAnswersItsCall ==
  [][\A c \in AliasCallers :
       op[c] = "alias" /\ result[c] = "none" /\ result'[c] \in {"ok", "rejected"}
         => gaveUp \/ Head(acks).rid = req[c].rid]_vars

\* Two threads in set_alias may take each other's answers, and no answer is
\* lost by it: while each request gets one and no call gives up, as many are on
\* their way or queued as calls wait for one (client.py:418, :422).
Waiting == {c \in AliasCallers : op[c] = "alias" /\ pc[c] \in {"poll", "isdone", "get"}}
AliasAnswersIn(frames) ==
  {i \in DOMAIN frames : frames[i].kind = "ack" /\ frames[i].cmd = "alias"}
Unanswered == {i \in DOMAIN wire : wire[i].kind = "alias" /\ wire[i].half = "flush"}
AnswersForAll ==
  peer = "up" /\ Replies = {1} /\ ~gaveUp /\ ~ackDropped =>
    Cardinality(Waiting) = Cardinality(Unanswered)
      + Cardinality(AliasAnswersIn(inbound)) + Cardinality(AliasAnswersIn(acks))

\* set_alias reports the code the server answers with (codecs.py:216 keeps it
\* in Ack.status so that it can): a call that succeeds had the code 0.
RejectionReported ==
  [][\A c \in AliasCallers :
       op[c] = "alias" /\ result[c] = "none" /\ result'[c] = "ok"
         => Head(acks).status = 0]_vars

\* Once the connection is lost every call returns, deadline or not, even while
\* the receiver is parked at a full _pushes: the heartbeat notices.
PeerLossEndsCalls == \A c \in Callers : peer # "up" ~> pc[c] = "idle"

\* close returns, whatever the other threads are doing, if the peer reads.
CloseReturns == \A c \in Closers : pc[c] = "close" ~> pc[c] = "idle"

\* After close the heartbeat thread ends.
CloseEndsHeartbeat == done ~> pc[Hb] = "dead"

\* The receiver cannot get to the frames behind a push.
RxParked == pc[Rx] \in {"handover", "put"} /\ Len(pushes) = PushCap

\* Once the answer to its request is on the way, set_alias returns even without
\* a deadline, except that the answer can be dropped at a full _acks or stay
\* behind a push that finds _pushes full (client.py:361, :369).
AnswerOnItsWay(c) ==
  \E i \in DOMAIN inbound :
    inbound[i].kind = "ack" /\ inbound[i].cmd = "alias" /\ inbound[i].rid = req[c].rid
AliasReturns ==
  \A c \in AliasCallers :
    pc[c] = "poll" /\ op[c] = "alias" /\ AnswerOnItsWay(c)
      ~> pc[c] = "idle" \/ ackDropped \/ RxParked
=============================================================================
